---------------------------- MODULE Spec2Model ----------------------------
(***************************************************************************)
(* A model of the portfolio site's client-side script.  The repository     *)
(* holds two variants of the script: src/script.js (static page, widgets   *)
(* only) and src/unnamed/part_000 (the same widgets plus the JSON loader,  *)
(* the renderers and the blog pipeline).  The variable `script` says which *)
(* one the page runs.                                                      *)
(*                                                                         *)
(* Text is a sequence of one-character strings, so that lower-casing,      *)
(* trimming, substring tests and pattern matching are computed, not        *)
(* assumed.  An optional value (null, a missing attribute) is the empty    *)
(* sequence, a present value v is <<v>>.                                   *)
(***************************************************************************)
EXTENDS Integers, Sequences, FiniteSets, TLC

VARIABLES
    script,        \* which script the page runs: "script.js" or "part_000"
    \* ---- page life cycle, loadAllData, theme ----
    pagePc,        \* "start" | "fetching" | "parsing" | "ready"
    parseIdx,      \* index of the body loadAllData parses next (1..5)
    projectsDoc,   \* the parsed projects.json (<<>> until parsed)
    timelineDocs,  \* timeline -> the number of entries of its parsed document
                   \* (education.json, experience.json): <<>> until parsed, then <<n>>
    rendered,      \* renderers invoked by loadAllData, in call order
    projectCards,  \* number of .project-card elements of the grid, one .project-img
                   \* each: rendered by part_000, in the static HTML of script.js
    log,           \* console entries of this page load
    failedDocs,    \* fixed documents whose fetch or parse failed in this page load
    initialized,   \* the initializers initializeApp has called, in call order
    storage,       \* localStorage['theme']: <<>> (null) or <<value>>
    dataTheme,     \* body[data-theme]: <<>> (absent) or <<value>>
    themeIcon,     \* text of .theme-icon
    themeLabel,    \* aria-label of #theme-toggle
    session,       \* number of the current page load
    clicks,        \* toggle clicks in the current page load
    themeLast,     \* last theme operation of this page load: "none" | "init" | "toggle"
    prevTheme,     \* body[data-theme] when the previous page load ended
    prevClicks,    \* toggle clicks of the previous page load
    storage0,      \* localStorage['theme'] before the first page load
    \* ---- timeline accordions ----
    expanded,      \* timeline -> data-expanded of its entries, in document order
    accLast,       \* the last accordion event
    accBefore,     \* `expanded` before the last accordion event
    \* ---- project lightbox ----
    nImages,           \* imageArray.length
    currentImageIndex, \* currentImageIndex
    lbAriaHidden,      \* #lightbox[aria-hidden]
    lbShow,            \* #lightbox carries the class 'show'
    lbImgSrc,          \* #lightbox-image.src: <<>> ('') or <<i>> (image i)
    lbImgAlt,          \* #lightbox-image.alt
    lbCaption,         \* #lightbox-caption text
    bodyOverflow,      \* document.body.style.overflow
    rafPending,        \* a requestAnimationFrame callback of openLightbox is queued
    closeTimers,       \* pending 300ms timers of closeLightbox
    lbLast,            \* the last event of the lightbox; `call`, `index` and `threw`
                       \* are those of its call of openLightbox
    lbBeforeIndex,     \* currentImageIndex before the last lightbox event
    \* ---- blog pipeline and search ----
    searchInput,   \* #blog-search value
    searchTimer,   \* the pending timers of setTimeout(performSearch, 300), oldest first
    sinceEdit,     \* time since the last input event, in ticks, up to DebounceTicks
    burst,         \* the current burst of input events and its debounced searches
    blogPc,        \* "idle" before initBlogSearch; the await loadBlogs is suspended
                   \* at: "listing" | "listingBody" | "manifest" | "manifestBody" |
                   \* "loop" (fetch of a post) | "body" (json() of a post); "done";
                   \* "static" in script.js
    blogFiles,     \* the list discoverBlogFiles returned
    blogIdx,       \* index in blogFiles of the file the loop is at
    blogCards,     \* blogCards: the card elements, in list order
    blogGrid,      \* children of #blogs-grid, in document order
    blogLog,       \* console entries of the blog pipeline
    fetched,       \* outcome of the loop iteration of each file so far
    searchLast,    \* the last performSearch call
    afterSearch,   \* no card or grid change since the last performSearch
    discovery,     \* discoverBlogFiles so far: the two responses and the paths found
    inFlight,      \* indices in blogFiles of the post fetches issued and not yet settled
    observed,      \* ids of the blog cards the scroll-animation observer observes, and
                   \* of those whose image the lazy-load observer observes
    \* ---- publications and their year filter ----
    pubPc,         \* "unrendered" | "rendered"
    pubDates,      \* the `date` text of each publication, in array order
    pubYears,      \* data-year of each .publication-item, in document order
    pubFilters,    \* data-filter of each .filter-btn, in document order
    pubActive,     \* the buttons carrying the class 'active'
    pubDisplay,    \* style.display of each item: "" | "block" | "none"
    pubOpacity,    \* style.opacity of each item: "" | "0" | "1"
    pubRaf,        \* items with a queued requestAnimationFrame callback
    pubLast,       \* the last filter click
    pubBefore      \* pubDisplay before the last filter click

pageVars  == <<pagePc, parseIdx, projectsDoc, timelineDocs, rendered, projectCards, log, failedDocs,
               initialized>>
themeVars == <<storage, dataTheme, themeIcon, themeLabel, session, clicks,
               themeLast, prevTheme, prevClicks, storage0>>
accVars == <<expanded, accLast, accBefore>>
lbVars == <<nImages, currentImageIndex, lbAriaHidden, lbShow, lbImgSrc, lbImgAlt,
            lbCaption, bodyOverflow, rafPending, closeTimers, lbLast, lbBeforeIndex>>
blogVars == <<searchInput, searchTimer, sinceEdit, burst, blogPc, blogFiles, blogIdx,
              blogCards, blogGrid,
              blogLog, fetched, searchLast, afterSearch, discovery, inFlight, observed>>
pubVars == <<pubPc, pubDates, pubYears, pubFilters, pubActive, pubDisplay, pubOpacity,
             pubRaf, pubLast, pubBefore>>
vars == <<script, pageVars, themeVars, accVars, lbVars, blogVars, pubVars>>

Scripts == {"script.js", "part_000"}

Range(f) == {f[i] : i \in DOMAIN f}

(***************************************************************************)
(* Bounds of the model.                                                    *)
(***************************************************************************)
MaxSessions == 3
MaxImages == 4
MaxClicks == 2

(***************************************************************************)
(* loadAllData (part_000 only)                                             *)
(***************************************************************************)
DocNames == <<"config", "education", "experience", "projects", "publications">>

\* A project of projects.json: `links` and `image` are present or missing.
WellFormedProject == [links |-> TRUE, image |-> TRUE]
NoLinksProject == [links |-> FALSE, image |-> TRUE]
NoImageProject == [links |-> TRUE, image |-> FALSE]
ProjectsCatalogue ==
    { <<>>, <<WellFormedProject>>, <<WellFormedProject, WellFormedProject>>,
      <<WellFormedProject, NoLinksProject>>, <<NoImageProject, WellFormedProject>> }

\* renderProjects appends one card per project, in array order; evaluating
\* project.links.demo throws a TypeError when `links` is missing, before
\* the card of that project is appended.
ProjectThrows(p) == ~p.links
RenderProjectsCount(projects) ==
    IF \E i \in 1..Len(projects) : ProjectThrows(projects[i])
    THEN (CHOOSE i \in 1..Len(projects) :
             /\ ProjectThrows(projects[i])
             /\ \A j \in 1..(i-1) : ~ProjectThrows(projects[j])) - 1
    ELSE Len(projects)
RenderProjectsThrows(projects) ==
    \E i \in 1..Len(projects) : ProjectThrows(projects[i])

\* The render calls of loadAllData, in source order.
RenderCalls ==
    <<"renderHero", "renderAbout", "renderContact", "renderEducation",
      "renderExperience", "renderProjects", "renderPublications">>
RenderProjectsAt == 6

\* The renderers loadAllData invokes once all five bodies are parsed: the
\* calls are sequential and a throw leaves the later ones uncalled.
RenderedCalls(projects) ==
    IF RenderProjectsThrows(projects)
    THEN SubSeq(RenderCalls, 1, RenderProjectsAt)
    ELSE RenderCalls

LoadErrorEntry == "Error loading data:"

(***************************************************************************)
(* initThemeToggle                                                         *)
(***************************************************************************)
LightIcon == "moon"
DarkIcon == "sun"

\* setTheme without the localStorage.setItem call.
SetThemeNoStore(theme) ==
    /\ dataTheme' = <<theme>>
    /\ storage' = storage
    /\ themeIcon' = IF theme = "light" THEN LightIcon ELSE DarkIcon
    /\ themeLabel' = IF theme = "light" THEN "Switch to dark mode"
                                        ELSE "Switch to light mode"

\* setTheme(theme)
SetTheme(theme) ==
    /\ dataTheme' = <<theme>>
    /\ storage' = <<theme>>
    /\ themeIcon' = IF theme = "light" THEN LightIcon ELSE DarkIcon
    /\ themeLabel' = IF theme = "light" THEN "Switch to dark mode"
                                        ELSE "Switch to light mode"

\* x || 'light' on an optional string: null and '' are falsy.
OrLight(x) == IF x = <<>> \/ x = <<"">> THEN "light" ELSE x[1]

\* const savedTheme = localStorage.getItem('theme') || 'light'; setTheme(savedTheme)
InitThemeToggle ==
    /\ SetTheme(OrLight(storage))
    /\ themeLast' = "init"
    /\ UNCHANGED <<session, clicks, prevTheme, prevClicks, storage0>>

\* The initializer calls of initializeApp, in source order.
Initializers ==
    <<"initNavigation", "initThemeToggle", "initTimelineAccordions", "initProjectLightbox",
      "initBlogSearch", "initPublicationFilters", "initBackToTop", "initFormHandling",
      "initLazyLoading", "initKeyboardNavigation", "initScrollAnimations">>

\* The .blog-card elements of the grid.
GridCardIds(grid) == {grid[i].id : i \in {k \in 1..Len(grid) : grid[k].kind = "card"}}

\* initLazyLoading observes the img[loading="lazy"] elements (every blog
\* card holds one) and initScrollAnimations the .blog-card elements that
\* are in the document when they run.
Observe(grid) == [scroll |-> GridCardIds(grid), lazy |-> GridCardIds(grid)]

\* The eleven initializers initializeApp runs in one turn once loadAllData
\* has returned (script.js: at once), on a document that holds `imgs`
\* .project-img elements.  initThemeToggle applies the stored theme;
\* initProjectLightbox builds imageArray, one entry per .project-img;
\* initBlogSearch of part_000 calls loadBlogs, which suspends at its
\* fetch('blogs/'), that of script.js collects the static cards;
\* initLazyLoading and initScrollAnimations observe what the document holds.
\* The other initializers attach listeners only.  The page answers user
\* events from then on.
InitWidgets(imgs) ==
    /\ pagePc' = "ready"
    /\ initialized' = Initializers
    /\ InitThemeToggle
    /\ nImages' = imgs
    /\ UNCHANGED <<currentImageIndex, lbAriaHidden, lbShow, lbImgSrc, lbImgAlt, lbCaption,
                   bodyOverflow, rafPending, closeTimers, lbLast, lbBeforeIndex>>
    /\ blogPc' = IF script = "part_000" THEN "listing" ELSE "static"
    /\ observed' = Observe(blogGrid)
    /\ UNCHANGED <<searchInput, searchTimer, sinceEdit, burst, blogFiles, blogIdx,
                   blogCards, blogGrid, blogLog, fetched, searchLast, afterSearch,
                   discovery, inFlight>>

\* The click listener of #theme-toggle.
ToggleClick ==
    /\ pagePc = "ready"
    /\ clicks < MaxClicks
    /\ SetTheme(IF OrLight(dataTheme) = "light" THEN "dark" ELSE "light")
    /\ themeLast' = "toggle"
    /\ clicks' = clicks + 1
    /\ UNCHANGED <<session, prevTheme, prevClicks, storage0>>
    /\ UNCHANGED <<script, pubVars, pageVars, accVars, lbVars, blogVars>>

(***************************************************************************)
(* Page life cycle                                                         *)
(***************************************************************************)
\* DOMContentLoaded -> initializeApp.  script.js runs the initializers at
\* once, on the cards of its static page; part_000 first awaits
\* loadAllData, which issues the five fetches.
DOMContentLoaded ==
    /\ pagePc = "start"
    /\ IF script = "script.js"
       THEN /\ InitWidgets(projectCards)
            /\ UNCHANGED <<parseIdx, projectsDoc, timelineDocs, rendered, projectCards, log, failedDocs>>
       ELSE /\ pagePc' = "fetching"
            /\ UNCHANGED <<parseIdx, projectsDoc, timelineDocs, rendered, projectCards, log, failedDocs,
                           initialized>>
            /\ UNCHANGED <<themeVars, lbVars, blogVars>>
    /\ UNCHANGED <<script, pubVars, accVars>>

\* Promise.all over the five fetches settles: it rejects if any fetch
\* rejects, and then the catch block logs and loadAllData returns.
FetchSettle(outcome) ==
    /\ pagePc = "fetching"
    /\ IF \E i \in 1..Len(DocNames) : outcome[i] = "neterr"
       THEN /\ log' = Append(log, LoadErrorEntry)
            /\ failedDocs' = {DocNames[i] : i \in {j \in 1..Len(DocNames) : outcome[j] = "neterr"}}
            /\ InitWidgets(projectCards)
            /\ UNCHANGED <<parseIdx, projectsDoc, timelineDocs, rendered, projectCards>>
       ELSE /\ pagePc' = "parsing"
            /\ parseIdx' = 1
            /\ UNCHANGED <<projectsDoc, timelineDocs, rendered, projectCards, log, failedDocs, initialized>>
            /\ UNCHANGED <<themeVars, lbVars, blogVars>>
    /\ UNCHANGED <<script, pubVars, accVars>>

\* A parse failure handled per document (log, skip the document, go on), as
\* the blog loop does, instead of aborting the batch.
ParseFailBestEffort ==
    /\ pagePc = "parsing"
    /\ log' = Append(log, LoadErrorEntry)
    /\ failedDocs' = failedDocs \cup {DocNames[parseIdx]}
    /\ projectsDoc' = IF DocNames[parseIdx] = "projects" THEN << <<>> >> ELSE projectsDoc
    /\ UNCHANGED timelineDocs
    /\ IF parseIdx < Len(DocNames)
       THEN /\ parseIdx' = parseIdx + 1
            /\ UNCHANGED <<pagePc, rendered, projectCards, initialized>>
            /\ UNCHANGED <<themeVars, lbVars, blogVars>>
       ELSE /\ rendered' = RenderedCalls(projectsDoc[1])
            /\ projectCards' = RenderProjectsCount(projectsDoc[1])
            /\ InitWidgets(RenderProjectsCount(projectsDoc[1]))
            /\ UNCHANGED parseIdx
    /\ UNCHANGED <<script, pubVars, accVars>>

\* loadAllData logging the parse failure and throwing it again: the await
\* in initializeApp rejects and no initializer is called.
ParseFailRethrown ==
    /\ pagePc = "parsing"
    /\ log' = Append(log, LoadErrorEntry)
    /\ failedDocs' = failedDocs \cup {DocNames[parseIdx]}
    /\ pagePc' = "failed"
    /\ UNCHANGED <<parseIdx, projectsDoc, timelineDocs, rendered, projectCards, initialized>>
    /\ UNCHANGED themeVars
    /\ UNCHANGED <<script, pubVars, accVars, lbVars, blogVars>>

\* await <doc>Res.json() for the body at parseIdx fails: catch, log, return;
\* initializeApp goes on to the initializers, on a document without cards.
ParseFail ==
    /\ pagePc = "parsing"
    /\ log' = Append(log, LoadErrorEntry)
    /\ failedDocs' = failedDocs \cup {DocNames[parseIdx]}
    /\ InitWidgets(projectCards)
    /\ UNCHANGED <<parseIdx, projectsDoc, timelineDocs, rendered, projectCards>>
    /\ UNCHANGED <<script, pubVars, accVars>>

\* The timeline a document of loadAllData fills.
TimelineOf(doc) == IF doc = "education" THEN "education-timeline" ELSE "experience-timeline"
TimelineDocNames == {"education", "experience"}
NoTimelineDocs == [tl \in {TimelineOf(doc) : doc \in TimelineDocNames} |-> <<>>]

\* await <doc>Res.json() succeeds for a body that is not the last one:
\* education.json and experience.json hold `entries` entries, projects.json
\* holds `projects`.
ParseOk(entries, projects) ==
    /\ pagePc = "parsing"
    /\ parseIdx < Len(DocNames)
    /\ parseIdx' = parseIdx + 1
    /\ projectsDoc' = IF DocNames[parseIdx] = "projects" THEN <<projects>>
                      ELSE projectsDoc
    /\ timelineDocs' = IF DocNames[parseIdx] \in TimelineDocNames
                       THEN [timelineDocs EXCEPT ![TimelineOf(DocNames[parseIdx])] = <<entries>>]
                       ELSE timelineDocs
    /\ UNCHANGED <<pagePc, rendered, projectCards, log, failedDocs, initialized>>
    /\ UNCHANGED <<script, pubVars, themeVars, accVars, lbVars, blogVars>>

StoredThemes == {<<>>, <<"light">>, <<"dark">>, <<"blue">>, <<"">>}

\* The page before DOMContentLoaded, with whatever an earlier visit stored.
PageInit ==
    /\ pagePc = "start"
    /\ parseIdx = 0
    /\ projectsDoc = <<>>
    /\ timelineDocs = NoTimelineDocs
    /\ rendered = <<>>
    /\ projectCards \in IF script = "script.js" THEN 0..MaxImages ELSE {0}
    /\ log = <<>>
    /\ failedDocs = {}
    /\ initialized = <<>>
    /\ storage \in StoredThemes
    /\ storage0 = storage
    /\ dataTheme = <<>>
    /\ themeIcon = ""
    /\ themeLabel = ""
    /\ session = 1
    /\ clicks = 0
    /\ themeLast = "none"
    /\ prevTheme = <<>>
    /\ prevClicks = 0

\* The page and theme variables in the specifications of the single widgets,
\* which start from a first visit on which initializeApp has called `inits`
\* and leave them alone: in part_000 loadAllData has parsed the five
\* documents and every renderer has run.
PageAfter(inits) ==
    /\ pagePc = "ready"
    /\ parseIdx = IF script = "part_000" THEN Len(DocNames) ELSE 0
    /\ rendered = IF script = "part_000" THEN RenderCalls ELSE <<>>
    /\ log = <<>>
    /\ failedDocs = {}
    /\ initialized = inits
    /\ storage = <<"light">>
    /\ storage0 = <<>>
    /\ dataTheme = <<"light">>
    /\ themeIcon = LightIcon
    /\ themeLabel = "Switch to dark mode"
    /\ session = 1
    /\ clicks = 0
    /\ themeLast = "init"
    /\ prevTheme = <<>>
    /\ prevClicks = 0

\* The page once initializeApp has called every initializer.
PageIdle == PageAfter(Initializers)

(***************************************************************************)
(* initTimelineAccordions                                                  *)
(***************************************************************************)
MaxEntries == 3

Timelines == {"education-timeline", "experience-timeline"}

\* setAttribute stores the string form of a boolean.
BoolToString(b) == IF b THEN "true" ELSE "false"

\* The listener storing "true" whatever the entry's flag was (no toggle).
TimelineClickAlwaysOpen(exp, tl, e) ==
    [exp EXCEPT ![tl] = [i \in 1..Len(exp[tl]) |->
        IF i = e THEN "true" ELSE "false"]]

\* The listener without the collapse of the other entries.
TimelineClickNoCollapse(exp, tl, e) ==
    [exp EXCEPT ![tl] = [i \in 1..Len(exp[tl]) |->
        IF i = e THEN BoolToString(~(exp[tl][e] = "true")) ELSE exp[tl][i]]]

\* The listener collapsing the entries of every timeline of the page.
TimelineClickCollapsesPage(exp, tl, e) ==
    [t \in DOMAIN exp |-> [i \in 1..Len(exp[t]) |->
        IF t = tl /\ i = e THEN BoolToString(~(exp[tl][e] = "true")) ELSE "false"]]

\* The click listener, for a click on the header of entry e of timeline tl:
\* read the entry's flag, collapse every entry of the same timeline, then
\* store the negated flag on the entry.
TimelineClick(exp, tl, e) ==
    LET isExpanded == exp[tl][e] = "true"
        allClosed == [exp EXCEPT ![tl] = [i \in 1..Len(exp[tl]) |-> "false"]]
    IN  [allClosed EXCEPT ![tl][e] = BoolToString(~isExpanded)]

\* Number of keydown handlers that call header.click() for Enter or Space on
\* a focused header: the accordion's own handler, and in script.js also the
\* document handler of initKeyboardNavigation.
KeyDownClicks(s) == IF s = "script.js" THEN 2 ELSE 1

RECURSIVE ClickTimes(_, _, _, _)
ClickTimes(exp, tl, e, n) ==
    IF n = 0 THEN exp ELSE ClickTimes(TimelineClick(exp, tl, e), tl, e, n - 1)

AccordionKeys == {"Enter", " ", "Tab"}

\* A click on a timeline header.
HeaderClick(tl, e) ==
    /\ e \in 1..Len(expanded[tl])
    /\ expanded' = TimelineClick(expanded, tl, e)
    /\ accLast' = [op |-> "click", tl |-> tl, e |-> e, key |-> ""]
    /\ accBefore' = expanded
    /\ UNCHANGED <<script, pubVars, pageVars, themeVars, lbVars, blogVars>>

\* A click inside a timeline but outside every header: part_000's delegated
\* listener returns early, script.js has no listener there.
DetailsClick(tl, e) ==
    /\ e \in 1..Len(expanded[tl])
    /\ accLast' = [op |-> "detailsClick", tl |-> tl, e |-> e, key |-> ""]
    /\ accBefore' = expanded
    /\ UNCHANGED <<expanded, script, pubVars, pageVars, themeVars, lbVars, blogVars>>

NoAccEvent == [op |-> "none", tl |-> "", e |-> 0, key |-> ""]

\* Rendered timelines: renderEducation / renderExperience seed every entry
\* with data-expanded = "false".
CollapsedTimeline(n) == [i \in 1..n |-> "false"]

AccInit ==
    /\ expanded \in [Timelines -> {CollapsedTimeline(n) : n \in 0..MaxEntries}]
    /\ accLast = NoAccEvent
    /\ accBefore = expanded

AccIdle ==
    /\ expanded = [tl \in Timelines |-> <<>>]
    /\ accLast = NoAccEvent
    /\ accBefore = expanded

(***************************************************************************)
(* initProjectLightbox                                                     *)
(***************************************************************************)
MaxCloseTimers == 2

\* JavaScript's % truncates toward zero.
JsRem(a, n) == IF a >= 0 THEN a % n ELSE 0 - ((0 - a) % n)

\* openLightbox(index) TypeError: imageArray[index] is undefined.
OpenLightboxThrows(index) == script = "script.js" /\ (index < 0 \/ index >= nImages)

\* openLightbox leaving currentImageIndex as it was.
OpenLightboxKeepsIndex(index) ==
    IF index < 0 \/ index >= nImages
    THEN UNCHANGED <<currentImageIndex, lbImgSrc, lbImgAlt, lbCaption, lbAriaHidden,
                     bodyOverflow, rafPending>>
    ELSE /\ UNCHANGED currentImageIndex
         /\ lbImgSrc' = <<index>>
         /\ lbImgAlt' = <<index>>
         /\ lbCaption' = <<index>>
         /\ lbAriaHidden' = "false"
         /\ bodyOverflow' = "hidden"
         /\ rafPending' = TRUE

\* openLightbox(index).  part_000 returns early on an index out of range;
\* script.js assigns currentImageIndex and then throws on imageArray[index].src.
\* The class 'show' is added by the requestAnimationFrame callback only.
OpenLightbox(index) ==
    IF index < 0 \/ index >= nImages
    THEN /\ currentImageIndex' = IF script = "script.js" THEN index
                                 ELSE currentImageIndex
         /\ UNCHANGED <<lbImgSrc, lbImgAlt, lbCaption, lbAriaHidden,
                        bodyOverflow, rafPending>>
    ELSE /\ currentImageIndex' = index
         /\ lbImgSrc' = <<index>>
         /\ lbImgAlt' = <<index>>
         /\ lbCaption' = <<index>>
         /\ lbAriaHidden' = "false"
         /\ bodyOverflow' = "hidden"
         /\ rafPending' = TRUE

\* closeLightbox(): the pending animation frame and the earlier timers are
\* left as they are.
CloseLightbox ==
    /\ lbShow' = FALSE
    /\ lbAriaHidden' = "true"
    /\ bodyOverflow' = ""
    /\ closeTimers' = closeTimers + 1

\* The index navigateLightbox(direction) computes.
NavigateIndex(current, direction, n) == JsRem(current + direction + n, n)

\* navigateLightbox(direction): the computed index is assigned to
\* currentImageIndex, then openLightbox is called with it.
NavigateLightbox(direction) ==
    LET index == NavigateIndex(currentImageIndex, direction, nImages)
    IN  IF index < 0 \/ index >= nImages
        THEN /\ currentImageIndex' = index
             /\ UNCHANGED <<lbImgSrc, lbImgAlt, lbCaption, lbAriaHidden,
                            bodyOverflow, rafPending>>
        ELSE OpenLightbox(index)

\* The record of a lightbox event that did not call openLightbox: `aria` is
\* aria-hidden before the event, `handled` says that the listener acted.
LbEvent(op, key, handled) ==
    [op |-> op, key |-> key, aria |-> lbAriaHidden, handled |-> handled,
     call |-> FALSE, index |-> 0, threw |-> FALSE]

\* The record of a lightbox event that called openLightbox(index).
LbCall(op, key, index) ==
    [op |-> op, key |-> key, aria |-> lbAriaHidden, handled |-> TRUE,
     call |-> TRUE, index |-> index, threw |-> OpenLightboxThrows(index)]

\* A click on project image i: openLightbox(i) with the forEach index.
ImageClick(i) ==
    /\ i \in 0..(nImages - 1)
    /\ OpenLightbox(i)
    /\ lbLast' = LbCall("imageClick", "", i)
    /\ lbBeforeIndex' = currentImageIndex
    /\ UNCHANGED <<nImages, lbShow, closeTimers>>
    /\ UNCHANGED <<script, pubVars, pageVars, themeVars, accVars, blogVars>>

\* One animation frame: every queued requestAnimationFrame callback runs,
\* the one of openLightbox (class 'show') and the fade-ins of the
\* publication filter (opacity '1').
AnimationFrame ==
    /\ rafPending \/ pubRaf # {}
    /\ rafPending' = FALSE
    /\ lbShow' = (lbShow \/ rafPending)
    /\ lbLast' = IF rafPending THEN LbEvent("frame", "", TRUE) ELSE lbLast
    /\ lbBeforeIndex' = IF rafPending THEN currentImageIndex ELSE lbBeforeIndex
    /\ pubOpacity' = [i \in 1..Len(pubOpacity) |->
                         IF i \in pubRaf THEN "1" ELSE pubOpacity[i]]
    /\ pubRaf' = {}
    /\ UNCHANGED <<nImages, currentImageIndex, lbAriaHidden, lbImgSrc, lbImgAlt,
                   lbCaption, bodyOverflow, closeTimers>>
    /\ UNCHANGED <<pubPc, pubDates, pubYears, pubFilters, pubActive, pubDisplay, pubLast,
                   pubBefore>>
    /\ UNCHANGED <<script, pageVars, themeVars, accVars, blogVars>>

\* A click on .lightbox-close, or on the backdrop (e.target === lightbox):
\* closeLightbox runs whatever the state of the lightbox.
CloseClick(where) ==
    /\ closeTimers < MaxCloseTimers
    /\ CloseLightbox
    /\ lbLast' = LbEvent(where, "", TRUE)
    /\ lbBeforeIndex' = currentImageIndex
    /\ UNCHANGED <<nImages, currentImageIndex, lbImgSrc, lbImgAlt, lbCaption, rafPending>>
    /\ UNCHANGED <<script, pubVars, pageVars, themeVars, accVars, blogVars>>

\* A click on the image inside the lightbox: e.target is not the lightbox.
InnerClick ==
    /\ lbLast' = LbEvent("innerClick", "", FALSE)
    /\ lbBeforeIndex' = currentImageIndex
    /\ UNCHANGED <<nImages, currentImageIndex, lbAriaHidden, lbShow, lbImgSrc, lbImgAlt,
                   lbCaption, bodyOverflow, rafPending, closeTimers>>
    /\ UNCHANGED <<script, pubVars, pageVars, themeVars, accVars, blogVars>>

LightboxKeys == {"Escape", "ArrowLeft", "ArrowRight", "Enter"}

\* The direction navigateLightbox is called with for an arrow key.
KeyDirection(key) == IF key = "ArrowLeft" THEN 0 - 1 ELSE 1

\* The document keydown listener of the lightbox, which every key press on
\* the page reaches: it returns at once unless the lightbox carries 'show'.
\* The press is recorded when the lightbox is open or shown.
LightboxKeyListener(key) ==
    /\ (key = "Escape" /\ lbShow) => closeTimers < MaxCloseTimers
    /\ IF ~lbShow
       THEN UNCHANGED <<currentImageIndex, lbAriaHidden, lbShow, lbImgSrc, lbImgAlt,
                        lbCaption, bodyOverflow, rafPending, closeTimers>>
       ELSE CASE key = "Escape" ->
                    /\ CloseLightbox
                    /\ UNCHANGED <<currentImageIndex, lbImgSrc, lbImgAlt, lbCaption,
                                   rafPending>>
              [] key \in {"ArrowLeft", "ArrowRight"} ->
                    /\ NavigateLightbox(KeyDirection(key))
                    /\ UNCHANGED <<lbShow, closeTimers>>
              [] OTHER ->
                    UNCHANGED <<currentImageIndex, lbAriaHidden, lbShow, lbImgSrc,
                                lbImgAlt, lbCaption, bodyOverflow, rafPending,
                                closeTimers>>
    /\ IF lbShow \/ lbAriaHidden = "false"
       THEN /\ lbLast' = IF lbShow /\ key \in {"ArrowLeft", "ArrowRight"}
                         THEN LbCall("keydown", key,
                                     NavigateIndex(currentImageIndex, KeyDirection(key),
                                                   nImages))
                         ELSE LbEvent("keydown", key, lbShow)
            /\ lbBeforeIndex' = currentImageIndex
       ELSE UNCHANGED <<lbLast, lbBeforeIndex>>
    /\ UNCHANGED nImages

\* A key pressed while the focus is neither in #blog-search nor on a
\* timeline header: of the keydown listeners only the document's act.
LightboxKeyDown(key) ==
    /\ LightboxKeyListener(key)
    /\ UNCHANGED <<script, pubVars, pageVars, themeVars, accVars, blogVars>>

\* A key pressed while the header of entry e has the focus: the keydown
\* listeners that call header.click(), and the document listener of the
\* lightbox.
HeaderKeyDown(tl, e, key) ==
    /\ e \in 1..Len(expanded[tl])
    /\ expanded' = IF key \in {"Enter", " "}
                   THEN ClickTimes(expanded, tl, e, KeyDownClicks(script))
                   ELSE expanded
    /\ accLast' = [op |-> "keydown", tl |-> tl, e |-> e, key |-> key]
    /\ accBefore' = expanded
    /\ LightboxKeyListener(key)
    /\ UNCHANGED <<script, pubVars, pageVars, themeVars, blogVars>>

\* A 300ms timer of closeLightbox expires.
CloseTimerFires ==
    /\ closeTimers > 0
    /\ closeTimers' = closeTimers - 1
    /\ lbImgSrc' = <<>>
    /\ lbCaption' = <<>>
    /\ lbLast' = LbEvent("timer", "", TRUE)
    /\ lbBeforeIndex' = currentImageIndex
    /\ UNCHANGED <<nImages, currentImageIndex, lbAriaHidden, lbShow, lbImgAlt,
                   bodyOverflow, rafPending>>
    /\ UNCHANGED <<script, pubVars, pageVars, themeVars, accVars, blogVars>>

NoLbEvent == [op |-> "none", key |-> "", aria |-> "true", handled |-> FALSE,
              call |-> FALSE, index |-> 0, threw |-> FALSE]

LbClosed ==
    /\ currentImageIndex = 0
    /\ lbAriaHidden = "true"
    /\ lbShow = FALSE
    /\ lbImgSrc = <<>>
    /\ lbImgAlt = <<>>
    /\ lbCaption = <<>>
    /\ bodyOverflow = ""
    /\ rafPending = FALSE
    /\ closeTimers = 0
    /\ lbLast = NoLbEvent
    /\ lbBeforeIndex = 0

\* After initProjectLightbox: one imageArray entry per .project-img.
LbInit ==
    /\ nImages \in 0..MaxImages
    /\ LbClosed

LbIdle ==
    /\ nImages = 0
    /\ LbClosed

(***************************************************************************)
(* Text: sequences of one-character strings                                *)
(***************************************************************************)
UpperChars == <<"A", "B", "C", "D", "E", "F", "G", "H", "I", "J", "K", "L", "M",
                "N", "O", "P", "Q", "R", "S", "T", "U", "V", "W", "X", "Y", "Z">>
LowerChars == <<"a", "b", "c", "d", "e", "f", "g", "h", "i", "j", "k", "l", "m",
                "n", "o", "p", "q", "r", "s", "t", "u", "v", "w", "x", "y", "z">>

LowerChar(c) ==
    IF \E i \in 1..Len(UpperChars) : UpperChars[i] = c
    THEN LowerChars[CHOOSE i \in 1..Len(UpperChars) : UpperChars[i] = c]
    ELSE c

\* String.prototype.toLowerCase
ToLowerCase(s) == [i \in 1..Len(s) |-> LowerChar(s[i])]

WhiteSpace == {" ", "\t", "\n", "\r"}

\* String.prototype.trim
Trim(s) ==
    LET keep == {i \in 1..Len(s) : s[i] \notin WhiteSpace}
    IN  IF keep = {} THEN <<>>
        ELSE SubSeq(s, CHOOSE i \in keep : \A j \in keep : i <= j,
                       CHOOSE i \in keep : \A j \in keep : i >= j)

\* The substring of s of length n that starts at position p (1-based).
Slice(s, p, n) == SubSeq(s, p, p + n - 1)

\* Positions at which sub occurs in s.
Occurrences(s, sub) ==
    {p \in 1..(Len(s) - Len(sub) + 1) : Slice(s, p, Len(sub)) = sub}

\* String.prototype.includes / startsWith / endsWith
Includes(s, sub) == Occurrences(s, sub) # {}
StartsWith(s, sub) == Len(sub) <= Len(s) /\ Slice(s, 1, Len(sub)) = sub
EndsWith(s, sub) ==
    Len(sub) <= Len(s) /\ Slice(s, Len(s) - Len(sub) + 1, Len(sub)) = sub

\* String.prototype.replace(pattern, by) with a string pattern: the first
\* occurrence only.
ReplaceFirst(s, sub, by) ==
    IF ~Includes(s, sub) THEN s
    ELSE LET p == CHOOSE q \in Occurrences(s, sub) :
                      \A r \in Occurrences(s, sub) : q <= r
         IN  SubSeq(s, 1, p - 1) \o by \o SubSeq(s, p + Len(sub), Len(s))

(***************************************************************************)
(* new RegExp(`(${searchTerm})`, 'gi') over the characters of the model:   *)
(* letters, digits, space, '/', '-', '_' are literals; '.' matches any     *)
(* character but a line terminator; '+' repeats the preceding atom         *)
(* (greedy); '(' and '[' open a group or class that the term never closes. *)
(***************************************************************************)
UnclosedOpeners == {"(", "["}

\* The constructor throws a SyntaxError: an unterminated group or class, or
\* a '+' with nothing to repeat (first, or right after another '+').
RegExpThrows(term) ==
    \E i \in 1..Len(term) :
        \/ term[i] \in UnclosedOpeners
        \/ term[i] = "+" /\ (i = 1 \/ term[i-1] = "+")

\* The atoms of a pattern that compiles, each with its quantifier.
RECURSIVE PatternItems(_, _)
PatternItems(term, i) ==
    IF i > Len(term) THEN <<>>
    ELSE IF i < Len(term) /\ term[i+1] = "+"
         THEN <<[ch |-> term[i], plus |-> TRUE]>> \o PatternItems(term, i + 2)
         ELSE <<[ch |-> term[i], plus |-> FALSE]>> \o PatternItems(term, i + 1)

LineTerminators == {"\n", "\r"}

\* One atom against one character, under the i flag.
AtomMatches(ch, c) ==
    IF ch = "." THEN c \notin LineTerminators ELSE LowerChar(ch) = LowerChar(c)

\* The number of consecutive characters from position i that atom ch matches.
RECURSIVE RunLength(_, _, _)
RunLength(ch, text, i) ==
    IF i <= Len(text) /\ AtomMatches(ch, text[i])
    THEN 1 + RunLength(ch, text, i + 1) ELSE 0

\* The position after the match of items k.. at position i of text, or -1:
\* a backtracking match, longest repetition first.
RECURSIVE MatchFrom(_, _, _, _)
MatchFrom(items, k, text, i) ==
    IF k > Len(items) THEN i
    ELSE IF ~items[k].plus
         THEN IF i <= Len(text) /\ AtomMatches(items[k].ch, text[i])
              THEN MatchFrom(items, k + 1, text, i + 1)
              ELSE -1
         ELSE LET ok == {r \in 1..RunLength(items[k].ch, text, i) :
                             MatchFrom(items, k + 1, text, i + r) # -1}
              IN  IF ok = {} THEN -1
                  ELSE MatchFrom(items, k + 1, text,
                                 i + (CHOOSE r \in ok : \A q \in ok : r >= q))

(***************************************************************************)
(* Element content: a sequence of nodes, text or <mark>                    *)
(***************************************************************************)
TextNode(t) == [tag |-> "text", text |-> t]
MarkNode(t) == [tag |-> "mark", text |-> t]

\* element.innerHTML = text, for text without markup characters.
PlainNodes(t) == IF t = <<>> THEN <<>> ELSE <<TextNode(t)>>

\* element.textContent
RECURSIVE TextContent(_)
TextContent(nodes) ==
    IF nodes = <<>> THEN <<>> ELSE Head(nodes).text \o TextContent(Tail(nodes))

HasMark(nodes) == \E i \in 1..Len(nodes) : nodes[i].tag = "mark"

\* text.replace(regex, '<mark>$1</mark>') assigned to innerHTML: scanning
\* from position p with `plain` holding the unmatched characters since the
\* last match.
RECURSIVE ReplaceAll(_, _, _, _)
ReplaceAll(items, text, p, plain) ==
    IF p > Len(text) THEN PlainNodes(plain)
    ELSE LET m == MatchFrom(items, 1, text, p)
         IN  IF m = -1
             THEN ReplaceAll(items, text, p + 1, Append(plain, text[p]))
             ELSE PlainNodes(plain) \o <<MarkNode(SubSeq(text, p, m - 1))>>
                      \o ReplaceAll(items, text, m, <<>>)

(***************************************************************************)
(* Blog search: performSearch and its helpers                              *)
(***************************************************************************)
NoResultsPrefix == <<"N", "o", " ", "b", "l", "o", "g", " ", "p", "o", "s",
    "t", "s", " ", "f", "o", "u", "n", "d", " ", "f", "o", "r", " ", "\"">>
NoResultsSuffix == <<"\"", ".", " ", "T", "r", "y", " ", "d", "i", "f",
    "f", "e", "r", "e", "n", "t", " ", "k", "e", "y", "w", "o", "r", "d",
    "s", ".">>

\* const searchTerm = searchInput.value.toLowerCase().trim()
SearchTerm(input) == Trim(ToLowerCase(input))

\* The searched text without the lower-casing of the card's text.
CardContentNoLower(card) ==
    TextContent(card.title) \o <<" ">> \o TextContent(card.excerpt) \o <<" ">>
        \o card.category

\* title + ' ' + excerpt + ' ' + category, each lower-cased text content.
CardContent(card) ==
    ToLowerCase(TextContent(card.title)) \o <<" ">>
        \o ToLowerCase(TextContent(card.excerpt)) \o <<" ">>
        \o ToLowerCase(card.category)

\* The visibility test matching the title alone.
IsVisibleTitleOnly(card, term) ==
    term = <<>> \/ Includes(ToLowerCase(TextContent(card.title)), term)

\* const isVisible = searchTerm === '' || content.includes(searchTerm)
IsVisible(card, term) == term = <<>> \/ Includes(CardContent(card), term)

\* highlightText(element, searchTerm); script.js has no empty-term branch,
\* and neither script calls it with an empty term.
HighlightText(nodes, term) ==
    IF term = <<>> THEN PlainNodes(TextContent(nodes))
    ELSE ReplaceAll(PatternItems(term, 1), TextContent(nodes), 1, <<>>)

\* highlightSearchTerms(card, searchTerm): returns at once on an empty term.
HighlightSearchTerms(card, term) ==
    IF term = <<>> THEN card
    ELSE [card EXCEPT !.title = HighlightText(@, term),
                      !.excerpt = HighlightText(@, term)]

\* removeHighlights(card)
RemoveHighlights(card) ==
    [card EXCEPT !.title = PlainNodes(TextContent(@)),
                 !.excerpt = PlainNodes(TextContent(@))]

\* The body of the forEach of performSearch for one card, when no
\* exception is thrown.
SearchCard(card, term) ==
    IF IsVisible(card, term)
    THEN HighlightSearchTerms([card EXCEPT !.display = "block"], term)
    ELSE RemoveHighlights([card EXCEPT !.display = "none"])

\* The index of the card at which performSearch throws (the RegExp
\* constructor, reached for the first visible card), or 0.
ThrowsAt(cards, term) ==
    LET vis == {i \in 1..Len(cards) : IsVisible(cards[i], term)}
    IN  IF term # <<>> /\ RegExpThrows(term) /\ vis # {}
        THEN CHOOSE i \in vis : \A j \in vis : i <= j
        ELSE 0

VisibleCount(cards, term) ==
    Cardinality({i \in 1..Len(cards) : IsVisible(cards[i], term)})

CardNode(i) == [kind |-> "card", id |-> i, text |-> <<>>]
NoResultsText(term) == NoResultsPrefix \o term \o NoResultsSuffix
NoResultsNode(term) == [kind |-> "no-results", id |-> 0, text |-> NoResultsText(term)]

MessagePositions(grid) == {i \in 1..Len(grid) : grid[i].kind = "no-results"}
RemoveAt(seq, p) == SubSeq(seq, 1, p - 1) \o SubSeq(seq, p + 1, Len(seq))

\* updateNoResultsMessage that appends a new message on every empty result.
UpdateNoResultsAlwaysAppend(grid, count, term) ==
    IF count = 0 /\ term # <<>> THEN Append(grid, NoResultsNode(term)) ELSE grid

\* updateNoResultsMessage(count, searchTerm) on the children of #blogs-grid;
\* querySelector finds the first .no-results element.
UpdateNoResultsMessage(grid, count, term) ==
    LET found == MessagePositions(grid)
        first == CHOOSE p \in found : \A q \in found : p <= q
    IN  IF count = 0 /\ term # <<>>
        THEN IF found = {} THEN Append(grid, NoResultsNode(term))
             ELSE [grid EXCEPT ![first] = NoResultsNode(term)]
        ELSE IF found # {} THEN RemoveAt(grid, first) ELSE grid

\* performSearch(): the cards and the grid it leaves, the normalized term,
\* and whether it threw.  A throw leaves the cards after the throwing one
\* and the message untouched.
PerformSearch(cards, grid, input) ==
    LET term == SearchTerm(input)
        at == ThrowsAt(cards, term)
    IN  IF at = 0
        THEN [cards |-> [i \in 1..Len(cards) |-> SearchCard(cards[i], term)],
              grid |-> UpdateNoResultsMessage(grid, VisibleCount(cards, term), term),
              term |-> term, threw |-> FALSE]
        ELSE [cards |-> [i \in 1..Len(cards) |->
                            IF i < at THEN SearchCard(cards[i], term)
                            ELSE IF i = at THEN [cards[i] EXCEPT !.display = "block"]
                            ELSE cards[i]],
              grid |-> grid, term |-> term, threw |-> TRUE]

(***************************************************************************)
(* discoverBlogFiles                                                       *)
(***************************************************************************)
BlogsDir == <<"b", "l", "o", "g", "s", "/">>
BlogPagesDir == <<"b", "l", "o", "g", "p", "a", "g", "e", "s", "/">>
DotJson == <<".", "j", "s", "o", "n">>
DotHtml == <<".", "h", "t", "m", "l">>
ManifestName == <<"b", "l", "o", "g", "s", ".", "j", "s", "o", "n">>
ParentDir == <<".", ".", "/">>
HttpPrefix == <<"h", "t", "t", "p">>
HrefQuery == <<"?", "C", "=", "N">>
HrefNotes == <<"n", "o", "t", "e", "s", ".", "t", "x", "t">>
HrefPost1 == <<"p", "o", "s", "t", "1", ".", "j", "s", "o", "n">>
HrefPost2 == <<"p", "o", "s", "t", "2", ".", "j", "s", "o", "n">>
HrefPost3 == <<"p", "o", "s", "t", "3", ".", "j", "s", "o", "n">>
HrefAbsPost2 == <<"/", "b", "l", "o", "g", "s", "/", "p", "o", "s", "t",
    "2", ".", "j", "s", "o", "n">>
HrefOldBlogs == <<"o", "l", "d", "-", "b", "l", "o", "g", "s", ".", "j", "s", "o", "n">>
HrefHttpApi == <<"h", "t", "t", "p", "-", "a", "p", "i", ".", "j", "s", "o", "n">>
HrefUpperCase == <<"P", "4", ".", "J", "S", "O", "N">>
Post1Name == <<"p", "o", "s", "t", "1">>
Post2Name == <<"p", "o", "s", "t", "2">>
Post3Name == <<"p", "o", "s", "t", "3">>

\* [...new Set(files)]: first occurrences, in order.
RECURSIVE Dedupe(_)
Dedupe(files) ==
    IF files = <<>> THEN <<>>
    ELSE LET rest == Dedupe(SubSeq(files, 1, Len(files) - 1))
             last == files[Len(files)]
         IN  IF last \in Range(rest) THEN rest ELSE Append(rest, last)

\* The anchors.forEach callback skips this href.
SkippedHref(href) ==
    \/ href = <<>>
    \/ href = ParentDir
    \/ StartsWith(href, <<"?">>)
    \/ Includes(href, ManifestName)

\* The path pushed for a kept href.
NormalizePath(href) ==
    LET prefixed == IF ~Includes(href, <<"/">>) /\ ~StartsWith(href, HttpPrefix)
                    THEN BlogsDir \o href ELSE href
    IN  IF StartsWith(prefixed, <<"/">>) THEN Tail(prefixed) ELSE prefixed

\* The hrefs for which the anchors.forEach callback pushes a path, in
\* document order.
KeptHrefs(hrefs) ==
    SelectSeq(hrefs, LAMBDA href : ~SkippedHref(href) /\ EndsWith(ToLowerCase(href), DotJson))

\* The files array after the directory-listing step, for the hrefs of the
\* listing's anchors in document order.
ListingFiles(hrefs) ==
    LET kept == KeptHrefs(hrefs)
    IN  [i \in 1..Len(kept) |-> NormalizePath(kept[i])]

\* The manifest's names mapped without the extension.
ManifestFilesNoExtension(names) == [i \in 1..Len(names) |-> BlogsDir \o names[i]]

\* data.map(name => `blogs/${name}.json`)
ManifestFiles(names) == [i \in 1..Len(names) |-> BlogsDir \o names[i] \o DotJson]

\* How the reading of the body of an OK response to fetch('blogs/') ends:
\* rejected, or with a listing page with these anchors.
ListingResponses ==
    { [kind |-> "neterr", hrefs |-> <<>>],
      [kind |-> "ok", hrefs |-> <<>>],
      [kind |-> "ok", hrefs |-> <<ParentDir, HrefQuery, ManifestName, HrefPost1,
                                  HrefPost2, HrefPost3>>],
      [kind |-> "ok", hrefs |-> <<HrefPost2, <<>>, HrefAbsPost2, HrefNotes, HrefPost1>>] }

\* The listings discoverBlogFiles is applied to on its own: every sequence
\* of up to MaxAnchors anchors over these hrefs (<<>> is an anchor without
\* href).
MaxAnchors == 2
DiscoveryHrefs ==
    {<<>>, ParentDir, HrefQuery, ManifestName, HrefNotes, HrefPost1, HrefAbsPost2,
     HrefOldBlogs, HrefHttpApi, HrefUpperCase}
DiscoveryListings ==
    {[kind |-> "neterr", hrefs |-> <<>>]}
    \cup {[kind |-> "ok", hrefs |-> h] :
              h \in UNION {[1..n -> DiscoveryHrefs] : n \in 0..MaxAnchors}}

\* How the reading of the body of an OK response to fetch('blogs/blogs.json')
\* ends: a body that is not JSON, a JSON value that is no array, or an array
\* of names.
ManifestResponses ==
    { [kind |-> "badjson", names |-> <<>>],
      [kind |-> "notarray", names |-> <<>>],
      [kind |-> "array", names |-> <<>>],
      [kind |-> "array", names |-> <<Post1Name, Post3Name>>],
      [kind |-> "array", names |-> <<Post1Name, Post1Name>>] }

(***************************************************************************)
(* loadBlogs                                                               *)
(***************************************************************************)
PathPost1 == <<"b", "l", "o", "g", "s", "/", "p", "o", "s", "t", "1", ".",
    "j", "s", "o", "n">>
PathPost2 == <<"b", "l", "o", "g", "s", "/", "p", "o", "s", "t", "2", ".",
    "j", "s", "o", "n">>
PathPost3 == <<"b", "l", "o", "g", "s", "/", "p", "o", "s", "t", "3", ".",
    "j", "s", "o", "n">>
TitleML == <<"M", "a", "c", "h", "i", "n", "e", " ", "L", "e", "a", "r",
    "n", "i", "n", "g", " ", "B", "a", "s", "i", "c", "s">>
ExcerptIntro == <<"A", " ", "s", "h", "o", "r", "t", " ", "i", "n", "t",
    "r", "o">>
ExcerptML == <<"M", "L", " ", "f", "o", "r", " ", "a", "l", "l">>
CategoryAI == <<"A", "I">>
TitleJava == <<"J", "a", "v", "a">>
ExcerptCpp == <<"C", "+", "+", " ", "o", "r", " ", "N", "o", "d", "e", ".",
    "j", "s">>
CategoryCode == <<"C", "o", "d", "e">>
ImagePost == <<"i", "m", "g", "/", "p", "o", "s", "t", ".", "p", "n", "g">>
UndefinedText == <<"u", "n", "d", "e", "f", "i", "n", "e", "d">>

\* The blog files the server holds.
BlogFileSystem ==
    { [path |-> PathPost1,
       post |-> [title |-> TitleML, excerpt |-> ExcerptIntro, category |-> CategoryAI,
                 image |-> <<ImagePost>>]],
      [path |-> PathPost2,
       post |-> [title |-> TitleML, excerpt |-> ExcerptML, category |-> CategoryAI,
                 image |-> <<ImagePost>>]],
      [path |-> PathPost3,
       post |-> [title |-> TitleJava, excerpt |-> ExcerptCpp, category |-> CategoryCode,
                 image |-> <<>>]] }

HasPost(path) == \E f \in BlogFileSystem : f.path = path
PostAt(path) == (CHOOSE f \in BlogFileSystem : f.path = path).post

\* The texts the user leaves in the search field.
QueryEmpty == <<>>
QueryMl == <<"m", "l">>
QueryMlUpper == <<" ", "M", "L", " ">>
QueryAc == <<"a", "c">>
QueryXyz == <<"x", "y", "z">>
QueryCpp == <<"c", "+", "+">>
QueryDot == <<".">>
QueryCPlus == <<"c", "+">>
FieldTexts == {QueryEmpty, QueryMl, QueryMlUpper, QueryAc, QueryXyz, QueryCpp,
               QueryDot, QueryCPlus}

\* The texts the user types while the posts are still loading.
LoadFieldTexts == {QueryEmpty, QueryXyz, QueryMlUpper}

\* The article element loadBlogs builds for a parsed post; a missing image
\* is interpolated as the text "undefined".
BlogCard(file, post) ==
    [file |-> file,
     title |-> PlainNodes(post.title),
     excerpt |-> PlainNodes(post.excerpt),
     category |-> post.category,
     image |-> IF post.image = <<>> THEN UndefinedText ELSE post.image[1],
     link |-> ReplaceFirst(ReplaceFirst(file, DotJson, DotHtml), BlogsDir, BlogPagesDir),
     display |-> ""]

\* setTimeout(performSearch, 300): the delay in ticks of 100 ms.
DebounceTicks == 3
MaxPendingTimers == 2

BlogFileError(file) == [msg |-> "Error loading blog file", file |-> file]
LoadBlogsError == [msg |-> "Error loading blogs:", file |-> <<>>]
DiscoverWarning == [msg |-> "Unable to auto-discover blog posts:", file |-> <<>>]
FallbackWarning == [msg |-> "Fallback to blogs.json failed:", file |-> <<>>]

\* initBlogSearch is the fifth initializer initializeApp calls.
BlogSearchAt == 5

\* The synchronous part of initializeApp has returned: the event loop can
\* run the next callback (a response, a timer, a user event).
TurnEnded == initialized = Initializers

\* discoverBlogFiles has not received a response yet.
NoDiscovery == [listing |-> "none", manifest |-> "none", hrefs |-> <<>>, kept |-> <<>>,
                listed |-> <<>>, names |-> <<>>, source |-> <<>>]

NoSearch == [op |-> "none", by |-> "", input |-> <<>>, term |-> <<>>, threw |-> FALSE,
             chained |-> FALSE]

\* This performSearch call and the one before it both have a non-empty term.
Chained(term) == term # <<>> /\ searchLast.op = "search" /\ searchLast.term # <<>>

\* console.error('JavaScript error:', e.error)
JsErrorEntry == "JavaScript error:"
MaxErrorEntries == 2

\* The variables of the page load other than the console.
loadVars == <<pagePc, parseIdx, projectsDoc, timelineDocs, rendered, projectCards,
              failedDocs, initialized>>

\* An exception that no handler of the script catches is reported to the
\* window: script.js listens for 'error' and logs it, part_000 does not.
ReportError(threw) ==
    IF script = "script.js" /\ threw
    THEN /\ Len(log) < MaxErrorEntries
         /\ log' = Append(log, JsErrorEntry)
    ELSE UNCHANGED log

\* A call of performSearch from a listener or a timer, with the field
\* holding `input`: an exception is left to the event loop.
RunSearch(by, input) ==
    LET r == PerformSearch(blogCards, blogGrid, input)
    IN  /\ blogCards' = r.cards
        /\ blogGrid' = r.grid
        /\ searchLast' = [op |-> "search", by |-> by, input |-> input,
                          term |-> r.term, threw |-> r.threw, chained |-> Chained(r.term)]
        /\ afterSearch' = TRUE
        /\ ReportError(r.threw)

\* The loop issuing the fetch of every remaining file at once.
IssueFetchAllAtOnce(flying, files, idx) == flying \cup (idx..Len(files))

\* fetch(file) for the file at idx: one more request is in flight.
IssueFetch(flying, files, idx) == flying \cup {idx}

\* loadBlogs is suspended at an await of discoverBlogFiles or of its loop.
BlogLoading ==
    blogPc \in {"listing", "listingBody", "manifest", "manifestBody", "loop", "body"}

\* The end of loadBlogs: performSearch() inside the outer try block.
FinishLoadBlogs(cards, grid, lg) ==
    LET r == PerformSearch(cards, grid, searchInput)
    IN  /\ blogCards' = r.cards
        /\ blogGrid' = r.grid
        /\ blogLog' = IF r.threw THEN Append(lg, LoadBlogsError) ELSE lg
        /\ blogPc' = "done"
        /\ searchLast' = [op |-> "search", by |-> "loadBlogs", input |-> searchInput,
                          term |-> r.term, threw |-> r.threw, chained |-> Chained(r.term)]
        /\ afterSearch' = TRUE

\* discoverBlogFiles has returned `files`: loadBlogs empties the grid and
\* enters the loop, which issues its first fetch and awaits it; with no
\* file it goes straight to the final performSearch.
StartLoop(files, lg) ==
    /\ blogFiles' = files
    /\ fetched' = <<>>
    /\ IF files = <<>>
       THEN /\ FinishLoadBlogs(blogCards, <<>>, lg)
            /\ blogIdx' = 0
            /\ UNCHANGED inFlight
       ELSE /\ blogGrid' = <<>>
            /\ blogPc' = "loop"
            /\ blogIdx' = 1
            /\ inFlight' = IssueFetch(inFlight, files, 1)
            /\ blogLog' = lg
            /\ afterSearch' = FALSE
            /\ UNCHANGED <<blogCards, searchLast>>

\* The listing step of discoverBlogFiles has ended without a path: the
\* fallback issues fetch('blogs/blogs.json') and awaits it.
RequestManifest(lg) ==
    /\ blogPc' = "manifest"
    /\ blogLog' = lg
    /\ UNCHANGED <<blogFiles, blogIdx, blogCards, blogGrid, fetched, searchLast,
                   afterSearch, inFlight>>

\* The listing step as discoverBlogFiles leaves it.
ListingStep(kind, hrefs) ==
    [listing |-> kind, manifest |-> "none", hrefs |-> hrefs,
     kept |-> IF kind = "ok" THEN KeptHrefs(hrefs) ELSE <<>>,
     listed |-> IF kind = "ok" THEN ListingFiles(hrefs) ELSE <<>>,
     names |-> <<>>,
     source |-> IF kind = "ok" THEN ListingFiles(hrefs) ELSE <<>>]

\* How a request ends: rejected, answered with a non-OK status, or answered
\* with an OK status (the body is still to be read).
ResponseKinds == {"neterr", "notok", "ok"}

\* `await fetch('blogs/')` settles.  A rejection is caught and warned about,
\* a non-OK status skips the parsing: both go on to the manifest.  An OK
\* response is read with `await response.text()`.
ListingResponse(kind) ==
    /\ TurnEnded
    /\ blogPc = "listing"
    /\ CASE kind = "ok" ->
              /\ blogPc' = "listingBody"
              /\ UNCHANGED <<blogFiles, blogIdx, blogCards, blogGrid, blogLog, fetched,
                             searchLast, afterSearch, inFlight, discovery>>
         [] kind = "notok" ->
              /\ RequestManifest(blogLog)
              /\ discovery' = ListingStep("notok", <<>>)
         [] kind = "neterr" ->
              /\ RequestManifest(Append(blogLog, DiscoverWarning))
              /\ discovery' = ListingStep("neterr", <<>>)
    /\ UNCHANGED <<searchInput, searchTimer, sinceEdit, burst, observed>>
    /\ UNCHANGED <<script, pubVars, pageVars, themeVars, accVars, lbVars>>

\* `await response.text()` of the listing settles: with the page (kind "ok",
\* the hrefs of its anchors in document order), whose kept paths start the
\* loop, or none of which sends discoverBlogFiles to the manifest; or with a
\* rejection (kind "neterr"), caught and warned about like that of the fetch.
ListingBody(resp) ==
    /\ blogPc = "listingBody"
    /\ resp.kind \in {"ok", "neterr"}
    /\ LET files == IF resp.kind = "ok" THEN ListingFiles(resp.hrefs) ELSE <<>>
           lg == IF resp.kind = "neterr" THEN Append(blogLog, DiscoverWarning)
                 ELSE blogLog
       IN  IF files = <<>>
           THEN RequestManifest(lg)
           ELSE StartLoop(Dedupe(files), lg)
    /\ discovery' = ListingStep(resp.kind, resp.hrefs)
    /\ UNCHANGED <<searchInput, searchTimer, sinceEdit, burst, observed>>
    /\ UNCHANGED <<script, pubVars, pageVars, themeVars, accVars, lbVars>>

\* discoverBlogFiles letting a failed manifest request reject: loadBlogs
\* catches it in its outer block, logs, and leaves the grid as it is.
ManifestResponseFatal(kind) ==
    /\ blogPc = "manifest"
    /\ IF kind = "ok"
       THEN /\ blogPc' = "manifestBody"
            /\ UNCHANGED <<blogFiles, blogIdx, blogCards, blogGrid, blogLog, fetched,
                           searchLast, afterSearch, inFlight, discovery>>
       ELSE /\ blogPc' = "done"
            /\ blogLog' = Append(blogLog, LoadBlogsError)
            /\ discovery' = [discovery EXCEPT !.manifest = kind]
            /\ UNCHANGED <<blogFiles, blogIdx, blogCards, blogGrid, fetched, searchLast,
                           afterSearch, inFlight>>
    /\ UNCHANGED <<searchInput, searchTimer, sinceEdit, burst, observed>>
    /\ UNCHANGED <<script, pubVars, pageVars, themeVars, accVars, lbVars>>

\* `await fetch('blogs/blogs.json')` settles.  A rejection is caught and
\* warned about, a non-OK status skips the parsing: discoverBlogFiles
\* returns the empty list.  An OK response is read with
\* `await response.json()`.
ManifestResponse(kind) ==
    /\ blogPc = "manifest"
    /\ IF kind = "ok"
       THEN /\ blogPc' = "manifestBody"
            /\ UNCHANGED <<blogFiles, blogIdx, blogCards, blogGrid, blogLog, fetched,
                           searchLast, afterSearch, inFlight, discovery>>
       ELSE /\ StartLoop(<<>>, IF kind = "neterr" THEN Append(blogLog, FallbackWarning)
                               ELSE blogLog)
            /\ discovery' = [discovery EXCEPT !.manifest = kind]
    /\ UNCHANGED <<searchInput, searchTimer, sinceEdit, burst, observed>>
    /\ UNCHANGED <<script, pubVars, pageVars, themeVars, accVars, lbVars>>

\* `await response.json()` of the manifest settles: with an array of names,
\* mapped to paths and returned; with a value that is no array, for which
\* the empty list is returned; or with a rejection ("badjson"), caught and
\* warned about.
ManifestBody(resp) ==
    /\ blogPc = "manifestBody"
    /\ resp.kind \in {"array", "notarray", "badjson"}
    /\ StartLoop(IF resp.kind = "array" THEN ManifestFiles(resp.names) ELSE <<>>,
                 IF resp.kind = "badjson" THEN Append(blogLog, FallbackWarning)
                 ELSE blogLog)
    /\ discovery' = [discovery EXCEPT
                        !.manifest = resp.kind,
                        !.names = resp.names,
                        !.source = IF resp.kind = "array" THEN ManifestFiles(resp.names)
                                   ELSE <<>>]
    /\ UNCHANGED <<searchInput, searchTimer, sinceEdit, burst, observed>>
    /\ UNCHANGED <<script, pubVars, pageVars, themeVars, accVars, lbVars>>

\* The iteration for the file at blogIdx has ended with `outcome`, leaving
\* `cards`, `grid` and the log `lg`, with the requests `flying` in flight:
\* the loop goes on to the next file, whose fetch it issues and awaits, or,
\* after the last file, loadBlogs runs performSearch() in the same turn.
NextIteration(outcome, cards, grid, lg, flying) ==
    /\ fetched' = Append(fetched, outcome)
    /\ IF blogIdx = Len(blogFiles)
       THEN /\ FinishLoadBlogs(cards, grid, lg)
            /\ inFlight' = flying
            /\ UNCHANGED blogIdx
       ELSE /\ blogCards' = cards
            /\ blogGrid' = grid
            /\ blogLog' = lg
            /\ blogPc' = "loop"
            /\ blogIdx' = blogIdx + 1
            /\ inFlight' = IssueFetch(flying, blogFiles, blogIdx + 1)
            /\ afterSearch' = IF outcome = "ok" THEN FALSE ELSE afterSearch
            /\ UNCHANGED searchLast

\* The loop of loadBlogs aborting on the first failed request.
PostResponseAbortOnFailure(kind) ==
    LET file == blogFiles[blogIdx]
    IN  /\ blogPc = "loop"
        /\ kind = "ok" => HasPost(file)
        /\ IF kind = "ok"
           THEN /\ blogPc' = "body"
                /\ inFlight' = inFlight \ {blogIdx}
                /\ UNCHANGED <<blogIdx, blogCards, blogGrid, blogLog, fetched, searchLast,
                               afterSearch>>
           ELSE /\ fetched' = Append(fetched, kind)
                /\ FinishLoadBlogs(blogCards, blogGrid, blogLog)
                /\ inFlight' = inFlight \ {blogIdx}
                /\ UNCHANGED blogIdx
        /\ UNCHANGED <<blogFiles, searchInput, searchTimer>>
        /\ UNCHANGED <<discovery, observed, sinceEdit, burst, script, pubVars, pageVars,
                       themeVars, accVars, lbVars>>

\* `await fetch(file)` of the iteration for the file at blogIdx settles: the
\* request is no longer in flight.  A rejection ("neterr") is caught and
\* logged, a non-OK status ("notok") continues: both end the iteration.  An
\* OK response is read with `await blogResponse.json()`.
PostResponse(kind) ==
    LET file == blogFiles[blogIdx]
        flying == inFlight \ {blogIdx}
    IN  /\ blogPc = "loop"
        /\ kind = "ok" => HasPost(file)
        /\ CASE kind = "ok" ->
                  /\ blogPc' = "body"
                  /\ inFlight' = flying
                  /\ UNCHANGED <<blogIdx, blogCards, blogGrid, blogLog, fetched,
                                 searchLast, afterSearch>>
             [] kind = "notok" ->
                  NextIteration("notok", blogCards, blogGrid, blogLog, flying)
             [] kind = "neterr" ->
                  NextIteration("neterr", blogCards, blogGrid,
                                Append(blogLog, BlogFileError(file)), flying)
        /\ UNCHANGED <<blogFiles, searchInput, searchTimer>>
        /\ UNCHANGED <<discovery, observed, sinceEdit, burst, script, pubVars, pageVars,
                       themeVars, accVars, lbVars>>

\* How the reading of a post's body ends: parsed, or rejected.
BodyOutcomes == {"ok", "badjson"}

\* `await blogResponse.json()` of the iteration for the file at blogIdx
\* settles: the post is parsed and its card appended to the grid and to
\* blogCards, or the rejection ("badjson") is caught and logged.  Either
\* ends the iteration.
PostBody(outcome) ==
    LET file == blogFiles[blogIdx]
        cards == Append(blogCards, BlogCard(file, PostAt(file)))
        grid == Append(blogGrid, CardNode(Len(cards)))
    IN  /\ blogPc = "body"
        /\ IF outcome = "ok"
           THEN NextIteration("ok", cards, grid, blogLog, inFlight)
           ELSE NextIteration("badjson", blogCards, blogGrid,
                              Append(blogLog, BlogFileError(file)), inFlight)
        /\ UNCHANGED <<blogFiles, searchInput, searchTimer>>
        /\ UNCHANGED <<discovery, observed, sinceEdit, burst, script, pubVars, pageVars,
                       themeVars, accVars, lbVars>>

\* clearTimeout(searchTimeout) without effect.
ClearTimeoutNoEffect(timers) == timers

\* clearTimeout(searchTimeout): the timer the variable names, if it is
\* still pending, is cancelled.
ClearTimeout(timers) == SelectSeq(timers, LAMBDA t : ~t.handle)

\* searchTimeout = setTimeout(performSearch, 300): a new timer, which the
\* variable names from now on.
SetTimeout(timers) ==
    Append([i \in 1..Len(timers) |-> [timers[i] EXCEPT !.handle = FALSE]],
           [left |-> DebounceTicks, handle |-> TRUE])

\* A timer is due: its delay has elapsed and its callback has not run yet.
TimerDue == \E i \in 1..Len(searchTimer) : searchTimer[i].left = 0

\* A burst is a run of input events, each less than the debounce delay
\* after the one before.  `restarted` says that one of them came after time
\* had passed, cancelling a timer that had partly elapsed; `runs` counts
\* the timer callbacks that have run since the burst began.
NoBurst == [open |-> FALSE, restarted |-> FALSE, runs |-> 0]

\* The input listener: the user edits the field; the pending timer is
\* cleared and a new one set.  A due timer's callback runs before an input
\* event that comes after it.
InputEdit(text) ==
    /\ TurnEnded
    /\ text # searchInput
    /\ ~TimerDue
    /\ Len(ClearTimeout(searchTimer)) < MaxPendingTimers
    /\ searchInput' = text
    /\ searchTimer' = SetTimeout(ClearTimeout(searchTimer))
    /\ burst' = IF burst.open /\ sinceEdit < DebounceTicks
                THEN [burst EXCEPT !.restarted = @ \/ sinceEdit > 0]
                ELSE [open |-> TRUE, restarted |-> FALSE, runs |-> 0]
    /\ sinceEdit' = 0
    /\ UNCHANGED <<blogPc, blogFiles, blogIdx, blogCards, blogGrid, blogLog, fetched,
                   searchLast, afterSearch>>
    /\ UNCHANGED <<discovery, inFlight, observed, script, pubVars, pageVars, themeVars, accVars, lbVars>>

\* n ticks of time pass with no event; no timer is left overdue.
Tick(n) ==
    /\ searchTimer # <<>> \/ sinceEdit < DebounceTicks
    /\ \A i \in 1..Len(searchTimer) : searchTimer[i].left >= n
    /\ searchTimer' = [i \in 1..Len(searchTimer) |->
                          [searchTimer[i] EXCEPT !.left = @ - n]]
    /\ sinceEdit' = IF sinceEdit + n > DebounceTicks THEN DebounceTicks ELSE sinceEdit + n
    /\ UNCHANGED <<searchInput, burst, blogPc, blogFiles, blogIdx, blogCards, blogGrid,
                   blogLog, fetched, searchLast, afterSearch>>
    /\ UNCHANGED <<discovery, inFlight, observed, script, pubVars, pageVars, themeVars, accVars, lbVars>>

\* The oldest due timer expires: performSearch runs with the text the field
\* holds now.
SearchTimerFires ==
    /\ TimerDue
    /\ LET due == CHOOSE i \in 1..Len(searchTimer) :
                      /\ searchTimer[i].left = 0
                      /\ \A j \in 1..(i - 1) : searchTimer[j].left # 0
       IN  searchTimer' = [i \in 1..(Len(searchTimer) - 1) |->
                              IF i < due THEN searchTimer[i] ELSE searchTimer[i + 1]]
    /\ burst' = [burst EXCEPT !.runs = @ + 1]
    /\ RunSearch("timer", searchInput)
    /\ UNCHANGED <<searchInput, sinceEdit, blogPc, blogFiles, blogIdx, blogLog, fetched>>
    /\ UNCHANGED <<discovery, inFlight, observed, script, pubVars, loadVars, themeVars,
                   accVars, lbVars>>

\* A click on .search-btn.
SearchButtonClick ==
    /\ TurnEnded
    /\ RunSearch("click", searchInput)
    /\ UNCHANGED <<searchInput, searchTimer, blogPc, blogFiles, blogIdx, blogLog, fetched>>
    /\ UNCHANGED <<discovery, inFlight, observed, sinceEdit, burst, script, pubVars, loadVars,
                   themeVars, accVars, lbVars>>

SearchKeys == {"Escape", "Enter"}

\* A key pressed while the focus is in #blog-search.  The keydown listener
\* of the field runs first: Escape empties the field and searches, any other
\* key is left alone.  The event then reaches the document, where the
\* listener of the lightbox runs.
SearchKeyDown(key) ==
    /\ TurnEnded
    /\ IF key = "Escape"
       THEN /\ searchInput' = <<>>
            /\ RunSearch("escape", <<>>)
       ELSE UNCHANGED <<searchInput, blogCards, blogGrid, searchLast, afterSearch, log>>
    /\ LightboxKeyListener(key)
    /\ UNCHANGED <<searchTimer, blogPc, blogFiles, blogIdx, blogLog, fetched>>
    /\ UNCHANGED <<discovery, inFlight, observed, sinceEdit, burst, script, pubVars, loadVars,
                   themeVars, accVars>>

\* The IntersectionObserver callback of initLazyLoading for the image of
\* card `id` scrolling into view: the image keeps its src (the cards carry
\* no data-src) and is no longer observed.
LazyImageIntersects(id) ==
    /\ TurnEnded
    /\ id \in observed.lazy
    /\ observed' = [observed EXCEPT !.lazy = @ \ {id}]
    /\ UNCHANGED <<searchInput, searchTimer, sinceEdit, burst, blogPc, blogFiles, blogIdx,
                   blogCards, blogGrid, blogLog, fetched, searchLast, afterSearch,
                   discovery, inFlight>>
    /\ UNCHANGED <<script, pubVars, pageVars, themeVars, accVars, lbVars>>

\* initBlogSearch has returned with loadBlogs suspended at its first fetch:
\* initializeApp calls the remaining initializers in the same turn, among
\* them initLazyLoading and initScrollAnimations.
LaterInitializers ==
    /\ initialized = SubSeq(Initializers, 1, BlogSearchAt)
    /\ initialized' = Initializers
    /\ observed' = Observe(blogGrid)
    /\ UNCHANGED <<pagePc, parseIdx, projectsDoc, timelineDocs, rendered, projectCards, log, failedDocs>>
    /\ UNCHANGED <<searchInput, searchTimer, sinceEdit, burst, blogPc, blogFiles, blogIdx,
                   blogCards, blogGrid, blogLog, fetched, searchLast, afterSearch,
                   discovery, inFlight>>
    /\ UNCHANGED <<script, pubVars, themeVars, accVars, lbVars>>

\* The cards of a page: the static page of script.js holds them in its HTML,
\* part_000 has loaded them from these files.
Pages == { <<>>, <<PathPost1, PathPost2, PathPost3>>, <<PathPost3, PathPost1>> }

\* The ids of the cards of these pages.
PageCardIds == UNION {1..Len(page) : page \in Pages}

\* After initBlogSearch in part_000: loadBlogs has been called and its fetch
\* of the directory listing is in flight; the listeners are attached.
BlogInit ==
    /\ searchInput = <<>>
    /\ searchTimer = <<>>
    /\ sinceEdit = DebounceTicks
    /\ burst = NoBurst
    /\ blogPc = "listing"
    /\ blogFiles = <<>>
    /\ blogIdx = 0
    /\ blogCards = <<>>
    /\ blogGrid = <<>>
    /\ blogLog = <<>>
    /\ fetched = <<>>
    /\ searchLast = NoSearch
    /\ afterSearch = FALSE
    /\ discovery = NoDiscovery
    /\ inFlight = {}
    /\ observed = Observe(<<>>)

\* The page once its cards are there and the user has not searched yet:
\* in script.js after initBlogSearch, in part_000 after loadBlogs has
\* loaded every file of the page and run its final performSearch.
SearchInit ==
    /\ searchInput = <<>>
    /\ searchTimer = <<>>
    /\ sinceEdit = DebounceTicks
    /\ burst = NoBurst
    /\ blogLog = <<>>
    /\ inFlight = {}
    /\ \E page \in Pages :
          /\ blogGrid = [i \in 1..Len(page) |-> CardNode(i)]
          /\ observed = IF script = "script.js"
                        THEN Observe([i \in 1..Len(page) |-> CardNode(i)])
                        ELSE Observe(<<>>)
          /\ discovery = IF script = "script.js" THEN NoDiscovery
                         ELSE [listing |-> "ok",
                               manifest |-> IF page = <<>> THEN "notok" ELSE "none",
                               hrefs |-> page,
                               kept |-> page, listed |-> page, names |-> <<>>,
                               source |-> page]
          /\ IF script = "script.js"
             THEN /\ blogPc = "static"
                  /\ blogFiles = <<>>
                  /\ blogIdx = 0
                  /\ fetched = <<>>
                  /\ blogCards = [i \in 1..Len(page) |-> BlogCard(page[i], PostAt(page[i]))]
                  /\ searchLast = NoSearch
                  /\ afterSearch = FALSE
             ELSE /\ blogPc = "done"
                  /\ blogFiles = page
                  /\ blogIdx = Len(page)
                  /\ fetched = [i \in 1..Len(page) |-> "ok"]
                  /\ blogCards = [i \in 1..Len(page) |->
                         [BlogCard(page[i], PostAt(page[i])) EXCEPT !.display = "block"]]
                  /\ searchLast = [op |-> "search", by |-> "loadBlogs", input |-> <<>>,
                                   term |-> <<>>, threw |-> FALSE, chained |-> FALSE]
                  /\ afterSearch = TRUE

\* Before initBlogSearch: nothing requested, no card, no listener.
BlogIdle ==
    /\ searchInput = <<>>
    /\ searchTimer = <<>>
    /\ sinceEdit = DebounceTicks
    /\ burst = NoBurst
    /\ blogPc = "idle"
    /\ blogFiles = <<>>
    /\ blogIdx = 0
    /\ blogCards = <<>>
    /\ blogGrid = <<>>
    /\ blogLog = <<>>
    /\ fetched = <<>>
    /\ searchLast = NoSearch
    /\ afterSearch = FALSE
    /\ discovery = NoDiscovery
    /\ inFlight = {}
    /\ observed = Observe(<<>>)

\* After initializeApp on a page without blog cards: loadBlogs of part_000
\* waits for the directory listing, script.js has its (empty) card list.
BlogStarted ==
    /\ searchInput = <<>>
    /\ searchTimer = <<>>
    /\ sinceEdit = DebounceTicks
    /\ burst = NoBurst
    /\ blogPc = IF script = "part_000" THEN "listing" ELSE "static"
    /\ blogFiles = <<>>
    /\ blogIdx = 0
    /\ blogCards = <<>>
    /\ blogGrid = <<>>
    /\ blogLog = <<>>
    /\ fetched = <<>>
    /\ searchLast = NoSearch
    /\ afterSearch = FALSE
    /\ discovery = NoDiscovery
    /\ inFlight = {}
    /\ observed = Observe(<<>>)

(***************************************************************************)
(* renderPublications (part_000) and initPublicationFilters                *)
(***************************************************************************)
MaxPublications == 3

Digits == {"0", "1", "2", "3", "4", "5", "6", "7", "8", "9"}

\* /\d{4}/ matches at position i: four digits in a row start there.
FourDigitsAt(s, i) == i + 3 <= Len(s) /\ \A k \in 0..3 : s[i + k] \in Digits

\* date.match(/\d{4}/) ? match[0] : '' -- the leftmost match of the pattern.
MatchYear(date) ==
    IF \E i \in 1..Len(date) : FourDigitsAt(date, i)
    THEN LET first == CHOOSE i \in 1..Len(date) :
                          /\ FourDigitsAt(date, i)
                          /\ \A j \in 1..(i - 1) : ~FourDigitsAt(date, j)
         IN  SubSeq(date, first, first + 3)
    ELSE <<>>

\* The order Array.prototype.sort gives strings of four digits.
DigitValue(c) == CHOOSE n \in 0..9 : <<"0", "1", "2", "3", "4", "5", "6", "7", "8", "9">>[n + 1] = c
YearValue(y) == 1000 * DigitValue(y[1]) + 100 * DigitValue(y[2]) + 10 * DigitValue(y[3])
                    + DigitValue(y[4])

\* [...new Set(years)].filter(y => y).sort().reverse()
RECURSIVE SortedDescending(_)
SortedDescending(years) ==
    IF years = {} THEN <<>>
    ELSE LET top == CHOOSE y \in years : \A z \in years : YearValue(z) <= YearValue(y)
         IN  <<top>> \o SortedDescending(years \ {top})
\* One entry per publication with a year, in array order: no Set, no sort.
FilterYearsPerPublication(dates) ==
    SelectSeq([i \in 1..Len(dates) |-> MatchYear(dates[i])], LAMBDA y : y # <<>>)

FilterYears(dates) ==
    SortedDescending({MatchYear(dates[i]) : i \in 1..Len(dates)} \ {<<>>})

FilterAll == <<"a", "l", "l">>

\* The `date` texts of publications.json.
DateJuly2023 == <<"J", "u", "l", "y", " ", "2", "0", "2", "3">>
DateMay2023 == <<"M", "a", "y", " ", "2", "0", "2", "3">>
Date2021 == <<"2", "0", "2", "1", "-", "0", "5">>
DateNone == <<"n", ".", "d", ".">>
DateFiveDigits == <<"1", "2", "3", "4", "5">>
DateTexts == {DateJuly2023, DateMay2023, Date2021, DateNone, DateFiveDigits}
PublicationsCatalogue ==
    UNION {[1..n -> DateTexts] : n \in 0..MaxPublications}

NoFilterClick == [op |-> "none", filter |-> <<>>]

\* The page renderPublications leaves: the "All" button, active, then one
\* button per year; one item per publication with its data-year, no inline
\* style yet.
Rendered(dates) ==
    /\ pubPc' = "rendered"
    /\ pubDates' = dates
    /\ pubYears' = [i \in 1..Len(dates) |-> MatchYear(dates[i])]
    /\ pubFilters' = <<FilterAll>> \o FilterYears(dates)
    /\ pubActive' = {1}
    /\ pubDisplay' = [i \in 1..Len(dates) |-> ""]
    /\ pubOpacity' = [i \in 1..Len(dates) |-> ""]
    /\ pubRaf' = {}
    /\ pubLast' = NoFilterClick
    /\ pubBefore' = <<>>

\* A filter that shows the items of every year and hides none.
ItemDisplayNeverHides(filter, year, display) ==
    IF filter = FilterAll \/ year = filter THEN "block" ELSE display

\* The style.display the click listener gives an item.
ItemDisplay(filter, year, display) ==
    IF filter = FilterAll \/ year = filter THEN "block" ELSE "none"

\* The clicked button marked active without unmarking the others.
ActiveButtonsKeepOthers(active, b) == active \cup {b}

\* The buttons carrying 'active' after a click on the b-th one: the class
\* is removed from every button and added to the clicked one.
ActiveButtons(active, b) == (active \ active) \cup {b}

\* A click on the b-th .filter-btn: it becomes the only active button; every
\* item is shown (with the fade-in queued) or hidden.
FilterClick(b) ==
    /\ pubPc = "rendered"
    /\ b \in 1..Len(pubFilters)
    /\ LET filter == pubFilters[b]
           items == 1..Len(pubYears)
           shown == {i \in items : ItemDisplay(filter, pubYears[i], pubDisplay[i]) = "block"}
       IN  /\ pubActive' = ActiveButtons(pubActive, b)
           /\ pubDisplay' = [i \in items |-> ItemDisplay(filter, pubYears[i], pubDisplay[i])]
           /\ pubOpacity' = [i \in items |-> IF i \in shown THEN "0" ELSE pubOpacity[i]]
           /\ pubRaf' = pubRaf \cup shown
           /\ pubLast' = [op |-> "click", filter |-> filter]
           /\ pubBefore' = pubDisplay
    /\ UNCHANGED <<pubPc, pubDates, pubYears, pubFilters>>
    /\ UNCHANGED <<script, pageVars, themeVars, accVars, lbVars, blogVars>>

\* Before renderPublications (part_000: the containers are empty), and a
\* static page of script.js without a publications section.
PubIdle ==
    /\ pubPc = "unrendered"
    /\ pubDates = <<>>
    /\ pubYears = <<>>
    /\ pubFilters = <<>>
    /\ pubActive = {}
    /\ pubDisplay = <<>>
    /\ pubOpacity = <<>>
    /\ pubRaf = {}
    /\ pubLast = NoFilterClick
    /\ pubBefore = <<>>

\* The page holding the publications `dates`, before any click: rendered
\* by renderPublications in part_000; in script.js the static page holds
\* the buttons and the items, with the same markup.
PubRenderedAs(dates) ==
    /\ pubPc = "rendered"
    /\ pubDates = dates
    /\ pubYears = [i \in 1..Len(dates) |-> MatchYear(dates[i])]
    /\ pubFilters = <<FilterAll>> \o FilterYears(dates)
    /\ pubActive = {1}
    /\ pubDisplay = [i \in 1..Len(dates) |-> ""]
    /\ pubOpacity = [i \in 1..Len(dates) |-> ""]
    /\ pubRaf = {}
    /\ pubLast = NoFilterClick
    /\ pubBefore = <<>>

PubStatic == \E dates \in PublicationsCatalogue : PubRenderedAs(dates)

\* A page without publications: part_000 has rendered an empty
\* publications.json, the static page of script.js has no filter section.
PubReady == IF script = "part_000" THEN PubRenderedAs(<<>>) ELSE PubIdle

\* The documents loadAllData parsed are those the page shows: one timeline
\* entry per entry of education.json and experience.json, one card with its
\* image per project.  script.js parses nothing.
PageContent ==
    /\ projectCards = nImages
    /\ projectsDoc = IF script = "part_000"
                     THEN << [i \in 1..nImages |-> WellFormedProject] >> ELSE <<>>
    /\ timelineDocs = IF script = "part_000"
                      THEN [tl \in Timelines |-> <<Len(expanded[tl])>>] ELSE NoTimelineDocs

\* The numbers of entries of the education.json and experience.json, and
\* the `date` texts of the publications.json, the page load parses.
LoadedEntries == {0, 2}
LoadedPublications == {<<>>, <<DateJuly2023, Date2021>>}

\* The last body (publications.json, holding `dates`) parses: the seven
\* render calls run in the same turn (renderEducation and renderExperience
\* append one collapsed entry per entry), a throwing renderer is caught by the
\* same catch block and leaves the later ones (renderPublications after
\* renderProjects) uncalled, and initializeApp goes on to the initializers:
\* every rendered project card holds one .project-img.
ParseLastAndRender(dates) ==
    /\ pagePc = "parsing"
    /\ parseIdx = Len(DocNames)
    /\ rendered' = RenderedCalls(projectsDoc[1])
    /\ projectCards' = RenderProjectsCount(projectsDoc[1])
    /\ log' = IF RenderProjectsThrows(projectsDoc[1])
              THEN Append(log, LoadErrorEntry) ELSE log
    /\ IF RenderProjectsThrows(projectsDoc[1])
       THEN UNCHANGED pubVars
       ELSE Rendered(dates)
    /\ expanded' = [tl \in Timelines |-> CollapsedTimeline(timelineDocs[tl][1])]
    /\ accBefore' = [tl \in Timelines |-> CollapsedTimeline(timelineDocs[tl][1])]
    /\ accLast' = NoAccEvent
    /\ InitWidgets(RenderProjectsCount(projectsDoc[1]))
    /\ UNCHANGED <<parseIdx, projectsDoc, timelineDocs, failedDocs>>
    /\ UNCHANGED script

\* The user reloads the page: the document is rebuilt from the static HTML
\* and the script starts anew (no imageArray, no pending request);
\* localStorage survives.  The static HTML of part_000 has empty sections;
\* that of script.js holds its timeline entries, project cards, blog cards
\* and publications again, as they were before any event.
Reload ==
    /\ session < MaxSessions
    /\ session' = session + 1
    /\ prevTheme' = dataTheme
    /\ prevClicks' = clicks
    /\ clicks' = 0
    /\ themeLast' = "none"
    /\ dataTheme' = <<>>
    /\ themeIcon' = ""
    /\ themeLabel' = ""
    /\ pagePc' = "start"
    /\ parseIdx' = 0
    /\ projectsDoc' = <<>>
    /\ timelineDocs' = NoTimelineDocs
    /\ rendered' = <<>>
    /\ projectCards' = IF script = "script.js" THEN projectCards ELSE 0
    /\ log' = <<>>
    /\ failedDocs' = {}
    /\ initialized' = <<>>
    /\ expanded' = [tl \in Timelines |->
           IF script = "script.js" THEN CollapsedTimeline(Len(expanded[tl])) ELSE <<>>]
    /\ accLast' = NoAccEvent
    /\ accBefore' = [tl \in Timelines |->
           IF script = "script.js" THEN CollapsedTimeline(Len(expanded[tl])) ELSE <<>>]
    /\ nImages' = 0
    /\ currentImageIndex' = 0
    /\ lbAriaHidden' = "true"
    /\ lbShow' = FALSE
    /\ lbImgSrc' = <<>>
    /\ lbImgAlt' = <<>>
    /\ lbCaption' = <<>>
    /\ bodyOverflow' = ""
    /\ rafPending' = FALSE
    /\ closeTimers' = 0
    /\ lbLast' = NoLbEvent
    /\ lbBeforeIndex' = 0
    /\ searchInput' = <<>>
    /\ searchTimer' = <<>>
    /\ sinceEdit' = DebounceTicks
    /\ burst' = NoBurst
    /\ blogPc' = "idle"
    /\ blogFiles' = <<>>
    /\ blogIdx' = 0
    /\ blogCards' = IF script = "script.js"
                    THEN [i \in 1..Len(blogCards) |->
                             BlogCard(blogCards[i].file, PostAt(blogCards[i].file))]
                    ELSE <<>>
    /\ blogGrid' = IF script = "script.js"
                   THEN [i \in 1..Len(blogCards) |-> CardNode(i)] ELSE <<>>
    /\ blogLog' = <<>>
    /\ fetched' = <<>>
    /\ searchLast' = NoSearch
    /\ afterSearch' = FALSE
    /\ discovery' = NoDiscovery
    /\ inFlight' = {}
    /\ observed' = Observe(<<>>)
    /\ IF script = "script.js" /\ pubPc = "rendered"
       THEN Rendered(pubDates)
       ELSE /\ pubPc' = "unrendered"
            /\ pubDates' = <<>>
            /\ pubYears' = <<>>
            /\ pubFilters' = <<>>
            /\ pubActive' = {}
            /\ pubDisplay' = <<>>
            /\ pubOpacity' = <<>>
            /\ pubRaf' = {}
            /\ pubLast' = NoFilterClick
            /\ pubBefore' = <<>>
    /\ UNCHANGED <<script, storage, storage0>>


Init ==
    /\ script \in Scripts
    /\ PageInit
    /\ AccIdle
    /\ LbIdle
    /\ BlogIdle
    /\ PubIdle

Next ==
    \/ DOMContentLoaded
    \/ \E outcome \in [1..Len(DocNames) -> {"ok", "neterr"}] : FetchSettle(outcome)
    \/ ParseFail
    \/ \E entries \in LoadedEntries, projects \in ProjectsCatalogue : ParseOk(entries, projects)
    \/ \E dates \in LoadedPublications : ParseLastAndRender(dates)
    \/ ToggleClick
    \/ Reload

Spec == Init /\ [][Next]_vars

InitAccordion ==
    /\ script \in Scripts
    /\ PageIdle
    /\ AccInit
    /\ LbIdle
    /\ BlogStarted
    /\ PubReady
    /\ PageContent

NextAccordion ==
    \/ \E tl \in Timelines, e \in 1..MaxEntries : HeaderClick(tl, e)
    \/ \E tl \in Timelines, e \in 1..MaxEntries : DetailsClick(tl, e)
    \/ \E tl \in Timelines, e \in 1..MaxEntries, key \in AccordionKeys :
            HeaderKeyDown(tl, e, key)

SpecAccordion == InitAccordion /\ [][NextAccordion]_vars

InitLightbox ==
    /\ script \in Scripts
    /\ PageIdle
    /\ AccIdle
    /\ LbInit
    /\ BlogStarted
    /\ PubReady
    /\ PageContent

NextLightbox ==
    \/ \E i \in 0..(MaxImages - 1) : ImageClick(i)
    \/ AnimationFrame
    \/ \E where \in {"closeClick", "backdropClick"} : CloseClick(where)
    \/ InnerClick
    \/ \E key \in LightboxKeys : LightboxKeyDown(key)
    \/ \E key \in SearchKeys : SearchKeyDown(key)
    \/ CloseTimerFires

SpecLightbox == InitLightbox /\ [][NextLightbox]_vars

InitBlog ==
    /\ script = "part_000"
    /\ PageAfter(SubSeq(Initializers, 1, BlogSearchAt))
    /\ AccIdle
    /\ LbIdle
    /\ BlogInit
    /\ PubReady
    /\ PageContent

NextBlog ==
    \/ LaterInitializers
    \/ \E kind \in ResponseKinds : ListingResponse(kind)
    \/ \E resp \in ListingResponses : ListingBody(resp)
    \/ \E kind \in ResponseKinds : ManifestResponse(kind)
    \/ \E resp \in ManifestResponses : ManifestBody(resp)
    \/ \E kind \in ResponseKinds : PostResponse(kind)
    \/ \E outcome \in BodyOutcomes : PostBody(outcome)
    \/ \E text \in LoadFieldTexts : InputEdit(text)
    \/ Tick(DebounceTicks)
    \/ SearchTimerFires
    \/ SearchButtonClick
    \/ \E key \in SearchKeys : SearchKeyDown(key)

SpecBlog == InitBlog /\ [][NextBlog]_vars

\* discoverBlogFiles on its own, as a function of the two responses.
NextDiscovery ==
    \/ LaterInitializers
    \/ \E kind \in ResponseKinds : ListingResponse(kind)
    \/ \E resp \in DiscoveryListings : ListingBody(resp)
    \/ \E kind \in ResponseKinds : ManifestResponse(kind)
    \/ \E resp \in ManifestResponses : ManifestBody(resp)

SpecDiscovery == InitBlog /\ [][NextDiscovery]_vars

InitSearch ==
    /\ script \in Scripts
    /\ PageIdle
    /\ AccIdle
    /\ LbIdle
    /\ SearchInit
    /\ PubReady
    /\ PageContent

NextSearch ==
    \/ \E text \in FieldTexts : InputEdit(text)
    \/ Tick(DebounceTicks)
    \/ SearchTimerFires
    \/ SearchButtonClick
    \/ \E key \in SearchKeys : SearchKeyDown(key)

SpecSearch == InitSearch /\ [][NextSearch]_vars

\* The search listeners with time passing tick by tick.
NextDebounce ==
    \/ \E id \in PageCardIds : LazyImageIntersects(id)
    \/ \E text \in LoadFieldTexts : InputEdit(text)
    \/ Tick(1)
    \/ SearchTimerFires
    \/ SearchButtonClick
    \/ \E key \in SearchKeys : SearchKeyDown(key)

SpecDebounce == InitSearch /\ [][NextDebounce]_vars

\* part_000 at the last await of loadAllData, on a first visit: four bodies
\* parsed (no timeline entry, no project), nothing rendered or initialized.
PageBeforeLastParse ==
    /\ pagePc = "parsing"
    /\ parseIdx = Len(DocNames)
    /\ projectsDoc = << <<>> >>
    /\ timelineDocs = [tl \in Timelines |-> <<0>>]
    /\ rendered = <<>>
    /\ projectCards = 0
    /\ log = <<>>
    /\ failedDocs = {}
    /\ initialized = <<>>
    /\ storage = <<>>
    /\ storage0 = <<>>
    /\ dataTheme = <<>>
    /\ themeIcon = ""
    /\ themeLabel = ""
    /\ session = 1
    /\ clicks = 0
    /\ themeLast = "none"
    /\ prevTheme = <<>>
    /\ prevClicks = 0

\* script.js: the initialized static page with its publications.  part_000:
\* the page about to parse publications.json and render it.
InitPublications ==
    /\ script \in Scripts
    /\ AccIdle
    /\ LbIdle
    /\ IF script = "script.js"
       THEN PageIdle /\ BlogStarted /\ PubStatic /\ PageContent
       ELSE PageBeforeLastParse /\ BlogIdle /\ PubIdle

NextPublications ==
    \/ \E dates \in PublicationsCatalogue : ParseLastAndRender(dates)
    \/ \E b \in 1..(MaxPublications + 1) : FilterClick(b)
    \/ AnimationFrame

SpecPublications == InitPublications /\ [][NextPublications]_vars

(***************************************************************************)
(* Properties                                                              *)
(***************************************************************************)
ExpandedEntries(exp, tl) == {i \in 1..Len(exp[tl]) : exp[tl][i] = "true"}

\* C2: all-or-nothing batch of loadAllData.  If the fetch of any of the five
\* fixed documents fails, or any of the five bodies fails to parse, no
\* renderer is invoked (no section is populated from this batch) and the
\* error is logged.
C2_AllOrNothingBatch ==
    failedDocs # {} =>
        /\ rendered = <<>>
        /\ projectCards = 0
        /\ LoadErrorEntry \in Range(log)

\* C2 witness: the third body failed to parse after two bodies had parsed,
\* and loadAllData has returned.
C2_Witness ==
    /\ script = "part_000"
    /\ pagePc = "ready"
    /\ failedDocs = {"experience"}
    /\ parseIdx = 3

\* A performSearch call has completed and nothing has touched the cards or
\* the grid since.
SearchCompleted == searchLast.op = "search" /\ ~searchLast.threw /\ afterSearch

CardIndices == 1..Len(blogCards)
Shown(card) == card.display # "none"
Marked(card) == HasMark(card.title) \/ HasMark(card.excerpt)

\* C1: round trip of the blog search.  After performSearch with the empty
\* query (following a performSearch with any query q) every card is visible
\* and no card's title or excerpt holds <mark> markup.
C1_SearchRoundTrip ==
    (SearchCompleted /\ searchLast.term = <<>>) =>
        \A i \in CardIndices : Shown(blogCards[i]) /\ ~Marked(blogCards[i])

\* The files of the iterations that ended "ok", in order.
RECURSIVE OkFiles(_, _)
OkFiles(files, outcomes) ==
    IF outcomes = <<>> THEN <<>>
    ELSE LET n == Len(outcomes)
             before == OkFiles(SubSeq(files, 1, n - 1), SubSeq(outcomes, 1, n - 1))
         IN  IF outcomes[n] = "ok" THEN Append(before, files[n]) ELSE before

\* The card children of the grid, in document order.
GridCards == SelectSeq(blogGrid, LAMBDA node : node.kind = "card")

\* C3: best-effort blog loading.  Whatever subset of the discovered posts
\* fails to fetch or parse, every other post becomes one card; the card list
\* and the grid hold the cards in discovery order with the failed posts
\* removed; every discovered file is attempted, whatever failed before it.
C3_BestEffortLoading ==
    /\ blogPc \in {"loop", "body", "done"} =>
          /\ [i \in CardIndices |-> blogCards[i].file] = OkFiles(blogFiles, fetched)
          /\ GridCards = [i \in CardIndices |-> CardNode(i)]
    /\ blogPc = "done" => Len(fetched) = Len(blogFiles)

\* C3 witness: three discovered posts, the second failed (one run with a
\* network error), the first and third are cards, the loop is over.
C3_Witness ==
    /\ blogPc = "done"
    /\ blogFiles = <<PathPost1, PathPost2, PathPost3>>
    /\ fetched = <<"ok", "neterr", "ok">>
    /\ [i \in CardIndices |-> blogCards[i].file] = <<PathPost1, PathPost3>>

\* The card's texts as the user reads them.
TitleOf(card) == TextContent(card.title)
ExcerptOf(card) == TextContent(card.excerpt)

\* C4 as stated: after performSearch completes with field text t, a card is
\* visible iff q = trim(lowercase(t)) is empty or q is a substring of the
\* lower-cased concatenation of the card's title, excerpt and category.
C4_VisibilityByConcatenation ==
    SearchCompleted =>
        LET q == Trim(ToLowerCase(searchLast.input))
        IN  \A i \in CardIndices :
                Shown(blogCards[i]) <=>
                    \/ q = <<>>
                    \/ Includes(ToLowerCase(TitleOf(blogCards[i]) \o ExcerptOf(blogCards[i])
                                                \o blogCards[i].category), q)

\* C4 amended: the three texts are joined by single spaces, so a query
\* never matches across the end of one text and the start of the next.
C4_VisibilityRule ==
    SearchCompleted =>
        LET q == Trim(ToLowerCase(searchLast.input))
        IN  \A i \in CardIndices :
                /\ blogCards[i].display \in {"block", "none"}
                /\ blogCards[i].display = "block" <=>
                    \/ q = <<>>
                    \/ Includes(ToLowerCase(TitleOf(blogCards[i]) \o <<" ">>
                                    \o ExcerptOf(blogCards[i]) \o <<" ">>
                                    \o blogCards[i].category), q)

\* C4 witness: the field text " ML " has been searched; the card whose
\* excerpt holds "ML" is visible and a card without it is hidden.
C4_Witness ==
    /\ SearchCompleted
    /\ searchLast.input = QueryMlUpper
    /\ \E i \in CardIndices :
          ExcerptOf(blogCards[i]) = ExcerptML /\ blogCards[i].display = "block"
    /\ \E i \in CardIndices : blogCards[i].display = "none"

\* C5 as stated: after performSearch with the field text "ml", a card titled
\* "Machine Learning Basics" is visible whatever its excerpt and category.
C5_MlMatchesTitle ==
    (SearchCompleted /\ searchLast.input = QueryMl) =>
        \A i \in CardIndices :
            TitleOf(blogCards[i]) = TitleML => blogCards[i].display = "block"

\* C5 amended: the title "Machine Learning Basics" does not contain "ml";
\* after performSearch with the field text "ml" a card with that title is
\* visible iff its excerpt or its category contains "ml", in any case.
C5_MlMatchesByExcerptOrCategory ==
    (SearchCompleted /\ searchLast.input = QueryMl) =>
        \A i \in CardIndices :
            TitleOf(blogCards[i]) = TitleML =>
                (blogCards[i].display = "block" <=>
                    \/ Includes(ToLowerCase(ExcerptOf(blogCards[i])), QueryMl)
                    \/ Includes(ToLowerCase(blogCards[i].category), QueryMl))

\* C5 witness: "ml" has been searched over two cards titled "Machine
\* Learning Basics"; the one with "ML" in its excerpt is visible, the other
\* is hidden.
C5_Witness ==
    /\ SearchCompleted
    /\ searchLast.input = QueryMl
    /\ \E i, j \in CardIndices :
          /\ TitleOf(blogCards[i]) = TitleML /\ blogCards[i].display = "block"
          /\ TitleOf(blogCards[j]) = TitleML /\ blogCards[j].display = "none"

\* C6: no-results message.  After every completed performSearch the grid
\* holds the message iff no card is visible and the normalized query is
\* non-empty; the grid never holds more than one message; the message text
\* echoes the searched query.
C6_NoResultsMessage ==
    /\ Cardinality(MessagePositions(blogGrid)) <= 1
    /\ SearchCompleted =>
          /\ MessagePositions(blogGrid) # {} <=>
                /\ \A i \in CardIndices : ~Shown(blogCards[i])
                /\ searchLast.term # <<>>
          /\ \A p \in MessagePositions(blogGrid) :
                blogGrid[p].text = NoResultsPrefix \o searchLast.term \o NoResultsSuffix

\* C6 witness: "xyz" has been searched over three cards; all are hidden and
\* the grid holds the message after them.
C6_Witness ==
    /\ SearchCompleted
    /\ searchLast.term = QueryXyz
    /\ Len(blogCards) = 3
    /\ \A i \in CardIndices : blogCards[i].display = "none"
    /\ MessagePositions(blogGrid) = {4}

\* C7: accordion invariant.  After any sequence of header clicks and key
\* presses, every timeline has at most one entry with data-expanded = "true";
\* before the first event all entries are collapsed.
C7_AccordionInvariant ==
    /\ \A tl \in Timelines : Cardinality(ExpandedEntries(expanded, tl)) <= 1
    /\ accLast = NoAccEvent => \A tl \in Timelines : ExpandedEntries(expanded, tl) = {}

\* C7 witness: a click on a collapsed entry while another entry of the same
\* three-entry timeline was expanded.
C7_Witness ==
    \E tl \in Timelines :
        /\ Len(expanded[tl]) = 3
        /\ accLast.op = "click" /\ accLast.tl = tl /\ accLast.e = 2
        /\ ExpandedEntries(accBefore, tl) = {1}
        /\ ExpandedEntries(expanded, tl) = {2}

\* C8: toggle semantics.  A click on a collapsed entry E leaves exactly E
\* expanded in its timeline; a click on the expanded entry leaves none
\* expanded.  With entries A, B, C (1, 2, 3): after "select A" exactly A is
\* expanded, select B then gives exactly B, and select B again gives none.
C8_ToggleSemantics ==
    accLast.op = "click" =>
        LET tl == accLast.tl
            e == accLast.e
        IN  /\ accBefore[tl][e] = "false" => ExpandedEntries(expanded, tl) = {e}
            /\ accBefore[tl][e] = "true" => ExpandedEntries(expanded, tl) = {}
            /\ (ExpandedEntries(accBefore, tl) = {1} /\ e = 2)
                   => ExpandedEntries(expanded, tl) = {2}
            /\ (ExpandedEntries(accBefore, tl) = {2} /\ e = 2)
                   => ExpandedEntries(expanded, tl) = {}

\* C8 witness: B was the expanded entry of a three-entry timeline and is
\* selected again.
C8_Witness ==
    \E tl \in Timelines :
        /\ Len(expanded[tl]) = 3
        /\ accLast.op = "click" /\ accLast.tl = tl /\ accLast.e = 2
        /\ ExpandedEntries(accBefore, tl) = {2}
        /\ ExpandedEntries(expanded, tl) = {}

\* The lightbox is open: openLightbox has set aria-hidden to "false", or the
\* lightbox carries the class 'show'.
LightboxOpen == lbAriaHidden = "false" \/ lbShow

\* The last lightbox event was a press of `key` on a lightbox that was open.
KeyOnOpenLightbox(key) ==
    /\ lbLast.op = "keydown"
    /\ lbLast.key = key
    /\ lbLast.aria = "false" \/ lbLast.handled

\* C9: lightbox navigation wraps and stays in range.  With the lightbox open
\* at index i, ArrowRight moves it to (i + 1) mod n and ArrowLeft to
\* (i - 1 + n) mod n; whenever the lightbox is open 0 <= currentImageIndex < n.
\* With 4 images, Left from 0 gives 3 and Right from 3 gives 0.
C9_LightboxNavigation ==
    /\ LightboxOpen => (0 <= currentImageIndex /\ currentImageIndex < nImages)
    /\ KeyOnOpenLightbox("ArrowRight")
           => currentImageIndex = (lbBeforeIndex + 1) % nImages
    /\ KeyOnOpenLightbox("ArrowLeft")
           => currentImageIndex = (lbBeforeIndex - 1 + nImages) % nImages
    /\ (KeyOnOpenLightbox("ArrowLeft") /\ nImages = 4 /\ lbBeforeIndex = 0)
           => currentImageIndex = 3
    /\ (KeyOnOpenLightbox("ArrowRight") /\ nImages = 4 /\ lbBeforeIndex = 3)
           => currentImageIndex = 0

\* C10: theme persistence across reloads.  The theme initThemeToggle applies
\* at the start of a page load equals the theme in effect when the previous
\* page load ended (whatever toggles it saw); with empty storage the first
\* load applies "light", and one toggle followed by a reload applies "dark".
C10_ThemePersistence ==
    themeLast = "init" =>
        /\ (session > 1 /\ prevTheme # <<>>) => dataTheme = prevTheme
        /\ (session = 1 /\ storage0 = <<>>) => dataTheme = <<"light">>
        /\ (session = 2 /\ storage0 = <<>> /\ prevClicks = 1)
               => dataTheme = <<"dark">>

\* C10 witness: empty storage, one toggle in the first page load, and the
\* second page load has run initThemeToggle.
C10_Witness ==
    /\ storage0 = <<>>
    /\ session = 2
    /\ prevClicks = 1
    /\ prevTheme = <<"dark">>
    /\ themeLast = "init"
    /\ dataTheme = <<"dark">>



PubItems == 1..Len(pubYears)

\* A maximal run of exactly four digits starts at position i.
ExactFourRunAt(s, i) ==
    /\ FourDigitsAt(s, i)
    /\ i = 1 \/ s[i - 1] \notin Digits
    /\ i + 4 > Len(s) \/ s[i + 4] \notin Digits

\* The first run of exactly four consecutive digits of a text, or empty.
FirstExactFourRun(s) ==
    IF \E i \in 1..Len(s) : ExactFourRunAt(s, i)
    THEN LET first == CHOOSE i \in 1..Len(s) :
                          /\ ExactFourRunAt(s, i)
                          /\ \A j \in 1..(i - 1) : ~ExactFourRunAt(s, j)
         IN  SubSeq(s, first, first + 3)
    ELSE <<>>

\* C11: derived year.  The data-year of every publication item equals the
\* first run of exactly four consecutive digits of its date text (a run of
\* five or more digits is not such a run), or is empty if there is none.
C11_DerivedYear ==
    (script = "part_000" /\ pubPc = "rendered") =>
        \A i \in PubItems : pubYears[i] = FirstExactFourRun(pubDates[i])

PubVisible == {i \in PubItems : pubDisplay[i] # "none"}

\* C12: publication filtering.  After a click on the control of year Y the
\* visible items are exactly the items whose data-year is Y; after a click
\* on "all" every item is visible, empty-year items included; whatever the
\* clicks before.
C12_PublicationFiltering ==
    pubLast.op = "click" =>
        /\ \A i \in PubItems : pubDisplay[i] \in {"block", "none"}
        /\ IF pubLast.filter = FilterAll
           THEN PubVisible = PubItems
           ELSE PubVisible = {i \in PubItems : pubYears[i] = pubLast.filter}

\* C12 witness: "all" has been clicked while a year filter was hiding an
\* item; an item without year is on the page and every item is shown.
C12_Witness ==
    /\ pubLast = [op |-> "click", filter |-> FilterAll]
    /\ \E i \in PubItems : pubBefore[i] = "none"
    /\ \E i \in PubItems : pubYears[i] = <<>>
    /\ \E i, j \in PubItems : pubYears[i] # <<>> /\ pubYears[j] # <<>> /\ pubYears[i] # pubYears[j]
    /\ \A i \in PubItems : pubDisplay[i] = "block"


\* The elements of a list in order, each at its first occurrence only.
FirstOccurrences(list) ==
    LET kept == {i \in 1..Len(list) : \A j \in 1..(i - 1) : list[j] # list[i]}
        RECURSIVE Pick(_)
        Pick(k) == IF k > Len(list) THEN <<>>
                   ELSE IF k \in kept THEN <<list[k]>> \o Pick(k + 1) ELSE Pick(k + 1)
    IN  Pick(1)

\* discoverBlogFiles has returned.
Discovered == blogPc \in {"loop", "body", "done"}

\* C13: the list discoverBlogFiles returns has no duplicates and keeps the
\* source order, for every directory listing and every manifest, a manifest
\* naming a post twice included.
C13_DiscoveredListDeduplicated ==
    (script = "part_000" /\ Discovered) =>
        /\ \A i, j \in 1..Len(blogFiles) : blogFiles[i] = blogFiles[j] => i = j
        /\ blogFiles = FirstOccurrences(discovery.source)

DiscoveryFailures == {"neterr", "notok"}
ManifestFailures == {"neterr", "notok", "badjson", "notarray"}

\* Both discovery steps have failed and loadBlogs has just finished.
DiscoveryFailedAndLoaded ==
    /\ discovery.listing \in DiscoveryFailures
    /\ discovery.manifest \in ManifestFailures
    /\ searchLast.by = "loadBlogs"
    /\ afterSearch

\* C14 as stated: discovery failures are not fatal; when both steps fail
\* loadBlogs finishes with zero cards and no no-results message.
C14_NoMessageAfterFailedDiscovery ==
    /\ discovery.listing \in DiscoveryFailures =>
          blogPc \in {"manifest", "manifestBody"} \/ discovery.manifest # "none"
    /\ (discovery.listing \in DiscoveryFailures /\ discovery.manifest \in ManifestFailures) =>
          /\ blogPc = "done"
          /\ blogFiles = <<>>
          /\ blogCards = <<>>
          /\ LoadBlogsError \notin Range(blogLog)
    /\ DiscoveryFailedAndLoaded => MessagePositions(blogGrid) = {}

\* C14 amended: as above, but the final performSearch of loadBlogs uses the
\* text the search field holds at that moment; the grid shows the
\* no-results message for it iff its normalized text is not empty.
C14_DiscoveryFailuresNonFatal ==
    /\ discovery.listing \in DiscoveryFailures =>
          blogPc \in {"manifest", "manifestBody"} \/ discovery.manifest # "none"
    /\ (discovery.listing \in DiscoveryFailures /\ discovery.manifest \in ManifestFailures) =>
          /\ blogPc = "done"
          /\ blogFiles = <<>>
          /\ blogCards = <<>>
          /\ LoadBlogsError \notin Range(blogLog)
    /\ DiscoveryFailedAndLoaded =>
          LET q == Trim(ToLowerCase(searchLast.input))
          IN  IF q = <<>> THEN blogGrid = <<>>
              ELSE blogGrid = <<NoResultsNode(q)>>

\* C14 witness: the listing request failed, the manifest was not an array,
\* and loadBlogs finished with zero cards while the field held "xyz".
C14_Witness ==
    /\ discovery.listing = "neterr"
    /\ discovery.manifest = "notarray"
    /\ DiscoveryFailedAndLoaded
    /\ blogCards = <<>>
    /\ searchLast.input = QueryXyz
    /\ MessagePositions(blogGrid) = {1}


\* C15: debounce.  At most one debounced search is pending; every input
\* edit cancels the pending one and schedules a new one 300 ms later, so a
\* burst of edits causes exactly one debounced performSearch, 300 ms after
\* the last edit, with the text the field holds when it runs.
C15_Debounce ==
    /\ Len(searchTimer) <= 1
    /\ \A i \in 1..Len(searchTimer) : searchTimer[i].left = DebounceTicks - sinceEdit
    /\ TimerDue => sinceEdit = DebounceTicks
    /\ burst.runs <= 1
    /\ (burst.open /\ searchTimer = <<>>) => (burst.runs = 1 /\ sinceEdit = DebounceTicks)
    /\ (burst.open /\ searchTimer # <<>>) => burst.runs = 0
    /\ (searchLast.by = "timer" /\ searchTimer = <<>>) => searchLast.input = searchInput

\* C15 witness: a burst in which an edit cancelled a partly elapsed timer
\* has ended with its one debounced search, for the text "xyz".
C15_Witness ==
    /\ burst = [open |-> TRUE, restarted |-> TRUE, runs |-> 1]
    /\ searchTimer = <<>>
    /\ searchLast.by = "timer"
    /\ searchLast.input = QueryXyz
    /\ searchInput = QueryXyz


\* The text performSearch matches a card against.
SearchedText(card) ==
    ToLowerCase(TitleOf(card) \o <<" ">> \o ExcerptOf(card) \o <<" ">> \o card.category)

\* C16: every search call processes the whole card list.  For every query,
\* one with regular-expression metacharacters included, performSearch
\* returns normally, having set the visibility of every card for this
\* query and updated the no-results message.
C16_SearchProcessesWholeList ==
    (searchLast.op = "search" /\ afterSearch) =>
        LET q == Trim(ToLowerCase(searchLast.input))
            matching == {i \in CardIndices : q = <<>> \/ Includes(SearchedText(blogCards[i]), q)}
        IN  /\ ~searchLast.threw
            /\ \A i \in CardIndices :
                  blogCards[i].display = IF i \in matching THEN "block" ELSE "none"
            /\ MessagePositions(blogGrid) # {} <=> (matching = {} /\ q # <<>>)


\* C17: the search engine never reads the card list while the load loop is
\* running: no performSearch runs between the start of loadBlogs and the
\* end of its loop, other than the loader's own final call.
C17_NoSearchDuringLoad ==
    BlogLoading => searchLast.op = "none"

\* A text with every non-overlapping occurrence of the literal string q,
\* in any case, wrapped in <mark>, scanning from position p.
RECURSIVE LiteralHighlight(_, _, _, _)
LiteralHighlight(text, q, p, plain) ==
    IF p > Len(text) THEN PlainNodes(plain)
    ELSE IF p + Len(q) - 1 <= Len(text)
            /\ ToLowerCase(SubSeq(text, p, p + Len(q) - 1)) = ToLowerCase(q)
         THEN PlainNodes(plain) \o <<MarkNode(SubSeq(text, p, p + Len(q) - 1))>>
                  \o LiteralHighlight(text, q, p + Len(q), <<>>)
         ELSE LiteralHighlight(text, q, p + 1, Append(plain, text[p]))

\* C18: highlighting marks exactly the occurrences of the query.  After
\* performSearch with a non-empty normalized query q, the <mark> segments of
\* the title and of the excerpt of every visible card are exactly the
\* non-overlapping case-insensitive occurrences of the literal q, and the
\* text without the markers is the original text.
C18_HighlightsLiteralOccurrences ==
    (SearchCompleted /\ searchLast.term # <<>>) =>
        \A i \in CardIndices :
            blogCards[i].display = "block" =>
                /\ blogCards[i].title = LiteralHighlight(TitleOf(blogCards[i]), searchLast.term, 1, <<>>)
                /\ blogCards[i].excerpt = LiteralHighlight(ExcerptOf(blogCards[i]), searchLast.term, 1, <<>>)
                /\ TitleOf(blogCards[i]) = PostAt(blogCards[i].file).title
                /\ ExcerptOf(blogCards[i]) = PostAt(blogCards[i].file).excerpt

\* The cards as first rendered, and the grid holding them.
FreshCards == [i \in CardIndices |-> BlogCard(blogCards[i].file, PostAt(blogCards[i].file))]
FreshGrid == [i \in CardIndices |-> CardNode(i)]

\* C19: highlighting is never layered.  For all non-empty queries q1 and
\* q2, the title and excerpt markup of every card after performSearch(q1)
\* followed by performSearch(q2) is the markup after performSearch(q2)
\* alone on freshly rendered cards.
C19_HighlightNeverLayered ==
    (searchLast.op = "search" /\ searchLast.chained /\ afterSearch) =>
        LET alone == PerformSearch(FreshCards, FreshGrid, searchLast.input).cards
        IN  \A i \in CardIndices :
                /\ blogCards[i].title = alone[i].title
                /\ blogCards[i].excerpt = alone[i].excerpt


\* C20: a closed lightbox stays closed.  Only openLightbox sets aria-hidden
\* to "false" and only closeLightbox sets it back, so from a close until the
\* next open aria-hidden is "true"; in all those states the lightbox does
\* not carry the class 'show', whenever the animation frame of an earlier
\* open runs.
C20_ClosedStaysClosed ==
    lbAriaHidden = "true" => ~lbShow


\* C21: whenever the lightbox is open (aria-hidden is "false") its image
\* source and its caption are those of imageArray[currentImageIndex]; the
\* 300ms timer of a close never clears the image of a lightbox that has been
\* opened again in the meantime.
C21_OpenShowsCurrentImage ==
    lbAriaHidden = "false" =>
        /\ lbImgSrc = <<currentImageIndex>>
        /\ lbCaption = <<currentImageIndex>>


SkippedIterations == {i \in 1..Len(fetched) : fetched[i] # "ok"}

\* The entries of the log that name a failure of `file`.
FileErrorEntries(file) ==
    {k \in 1..Len(blogLog) : blogLog[k] = BlogFileError(file)}

\* C23: every skipped blog post is logged.  For each path of the discovered
\* list the log holds one "Error loading blog file" entry per iteration of
\* that path that ended without a card, whether the fetch was rejected, the
\* status was not OK or the body failed to parse.
C23_SkippedPostsLogged ==
    \A file \in Range(blogFiles) :
        Cardinality(FileErrorEntries(file)) =
            Cardinality({i \in SkippedIterations : blogFiles[i] = file})


\* C24: blog posts are fetched strictly sequentially.  At most one post
\* fetch of loadBlogs is in flight, and it is the fetch of the path right
\* after the ones already appended as a card or skipped: the fetch of path
\* i + 1 is never in flight before path i is settled.  While the loop awaits
\* a fetch, that fetch is the one in flight; none is while a body is read,
\* during discovery, or once loadBlogs has finished.
C24_SequentialFetches ==
    /\ Cardinality(inFlight) <= 1
    /\ \A i \in inFlight : i \in 1..Len(blogFiles) /\ Len(fetched) = i - 1
    /\ blogPc = "loop" => inFlight = {Len(fetched) + 1}
    /\ blogPc # "loop" => inFlight = {}

\* The second path is being fetched after the first one was answered with
\* an OK status and its body read into a card, and a third path is still to
\* come.
C24_Witness ==
    /\ blogPc = "loop"
    /\ inFlight = {2}
    /\ fetched = <<"ok">>
    /\ Len(blogCards) = 1
    /\ Len(blogFiles) = 3


\* The hrefs the directory-listing filter is to keep: those ending in .json
\* (in any letter case), except the parent-directory link, hrefs beginning
\* with '?' and the manifest file itself.
FilterKeeps(href) ==
    /\ EndsWith(ToLowerCase(href), DotJson)
    /\ href # ParentDir
    /\ ~StartsWith(href, <<"?">>)
    /\ href # ManifestName

\* C25: from the anchors of a reachable listing discoverBlogFiles keeps
\* exactly the hrefs that end in .json and are neither the parent-directory
\* link, nor begin with '?', nor are the manifest blogs.json; a file whose
\* name only contains the manifest name, such as old-blogs.json, is kept.
C25_ListingFilter ==
    discovery.listing = "ok" =>
        discovery.kept = SelectSeq(discovery.hrefs, FilterKeeps)

\* C26: every kept href without a path separator yields "blogs/" followed
\* by the href, whatever its first letters, and every kept href with a
\* leading "/" yields the href without that separator.
C26_PathNormalization ==
    discovery.listing = "ok" =>
        /\ Len(discovery.listed) = Len(discovery.kept)
        /\ \A i \in 1..Len(discovery.kept) :
              LET href == discovery.kept[i]
              IN  /\ ~Includes(href, <<"/">>) => discovery.listed[i] = BlogsDir \o href
                  /\ StartsWith(href, <<"/">>) => discovery.listed[i] = Tail(href)


\* discoverBlogFiles has issued fetch('blogs/blogs.json').
ManifestRequested == blogPc \in {"manifest", "manifestBody"} \/ discovery.manifest # "none"

\* C27: the manifest is requested if and only if the directory-listing step
\* produced zero paths.  When the manifest is an array the returned list
\* is, name by name, "blogs/" + n + ".json"; otherwise it holds the paths of
\* the listing and no others: the two sources are never mixed.
C27_ManifestFallback ==
    /\ discovery.listing # "none" => (ManifestRequested <=> discovery.listed = <<>>)
    /\ discovery.listing = "none" => ~ManifestRequested
    /\ Discovered =>
          IF discovery.manifest = "array"
          THEN /\ discovery.listed = <<>>
               /\ Len(blogFiles) = Len(discovery.names)
               /\ \A i \in 1..Len(blogFiles) :
                      blogFiles[i] = BlogsDir \o discovery.names[i] \o DotJson
          ELSE /\ Range(blogFiles) = Range(discovery.listed)
               /\ discovery.names = <<>>

\* A reachable listing with anchors but no post file, then a manifest of
\* two names.
C27_Witness ==
    /\ Discovered
    /\ discovery.listing = "ok"
    /\ discovery.hrefs # <<>>
    /\ discovery.listed = <<>>
    /\ discovery.manifest = "array"
    /\ blogFiles = <<PathPost1, PathPost3>>


\* loadAllData has fetched and parsed all five documents and has returned.
BatchParsed ==
    /\ script = "part_000"
    /\ pagePc = "ready"
    /\ failedDocs = {}
    /\ projectsDoc # <<>>

\* C28: the renderers tolerate missing optional fields.  Once the five
\* documents are parsed, no renderer throws on a project without `links`
\* or without `image`: no error is logged, every project has its card, and
\* the renderers after renderProjects have run.
C28_RenderersTolerateMissingFields ==
    BatchParsed =>
        /\ LoadErrorEntry \notin Range(log)
        /\ projectCards = Len(projectsDoc[1])
        /\ rendered = RenderCalls


\* loadAllData has finished rendering or has logged its failure.
BatchSettled == rendered = RenderCalls \/ LoadErrorEntry \in Range(log)

\* C29: in part_000 no initializer of initializeApp has been called before
\* loadAllData has finished rendering or logged its failure, and once it
\* has, all eleven have been called, in source order, after a failed load
\* as after a successful one.
C29_InitializersAfterBatch ==
    script = "part_000" =>
        /\ initialized # <<>> => BatchSettled
        /\ BatchSettled => initialized = Initializers

\* The load has failed on a document and the initializers have run.
C29_Witness ==
    /\ script = "part_000"
    /\ failedDocs # {}
    /\ rendered = <<>>
    /\ LoadErrorEntry \in Range(log)
    /\ initialized = Initializers


\* A year can be derived from the date text: it holds four digits in a row.
HasFourDigits(date) == \E i \in 1..Len(date) : FourDigitsAt(date, i)

\* The years of the rendered items, the empty one left out.
ItemYears == {pubYears[i] : i \in PubItems} \ {<<>>}

\* C30: renderPublications builds the "All" control first, active until a
\* control is clicked, then exactly one control per distinct non-empty year
\* of the items, in strictly descending order; a publication whose date has
\* no year adds no control, has an empty data-year, and is hidden after a
\* click on any year control.
C30_FilterControls ==
    (script = "part_000" /\ pubPc = "rendered") =>
        LET n == Len(pubFilters)
        IN  /\ n >= 1 /\ pubFilters[1] = FilterAll
            /\ pubLast = NoFilterClick => pubActive = {1}
            /\ n = 1 + Cardinality(ItemYears)
            /\ {pubFilters[b] : b \in 2..n} = ItemYears
            /\ \A b \in 2..(n - 1) : YearValue(pubFilters[b]) > YearValue(pubFilters[b + 1])
            /\ \A i \in PubItems : pubYears[i] = <<>> <=> ~HasFourDigits(pubDates[i])
            /\ (pubLast.op = "click" /\ pubLast.filter # FilterAll) =>
                  \A i \in PubItems : pubYears[i] = <<>> => pubDisplay[i] = "none"

\* Publications of 2021, without year and of 2023, in this order: the
\* controls are All, 2023, 2021, and a click on 2021 has hidden the item
\* without year.
C30_Witness ==
    /\ script = "part_000"
    /\ pubDates = <<Date2021, DateNone, DateJuly2023>>
    /\ Len(pubFilters) = 3
    /\ pubLast.op = "click" /\ pubLast.filter = pubFilters[3]
    /\ pubYears[2] = <<>> /\ pubDisplay[2] = "none"
    /\ pubDisplay[1] = "block"


\* The items the control with this data-filter selects.
SelectedBy(filter) ==
    IF filter = FilterAll THEN PubItems
    ELSE {i \in PubItems : pubYears[i] = filter}

\* C31: sole active filter.  Once the publications are on the page, in both
\* script variants and after any sequence of filter clicks, exactly one
\* filter control carries 'active' and the visible items are the ones that
\* control selects: all of them for "all", those of its year otherwise.
C31_SoleActiveFilter ==
    pubPc = "rendered" =>
        /\ Cardinality(pubActive) = 1
        /\ \A b \in pubActive :
              /\ b \in 1..Len(pubFilters)
              /\ PubVisible = SelectedBy(pubFilters[b])

\* A second year control has been clicked after another one: an item the
\* earlier click had hidden is shown again and another item is hidden.
C31_Witness ==
    /\ pubLast.op = "click"
    /\ Len(pubFilters) = 3
    /\ pubActive = {3}
    /\ \E i \in PubItems : pubBefore[i] = "none" /\ pubDisplay[i] = "block"
    /\ \E j \in PubItems : pubBefore[j] = "block" /\ pubDisplay[j] = "none"


\* C32: keyboard activation equals one click.  Enter or Space on a focused
\* timeline header changes the accordion as one click on that header does:
\* a collapsed entry becomes the only expanded one of its timeline, an
\* expanded entry collapses and leaves none expanded.
C32_KeyActivationIsOneClick ==
    (accLast.op = "keydown" /\ accLast.key \in {"Enter", " "}) =>
        LET tl == accLast.tl
            e == accLast.e
        IN  /\ accBefore[tl][e] = "false" => ExpandedEntries(expanded, tl) = {e}
            /\ accBefore[tl][e] = "true" => ExpandedEntries(expanded, tl) = {}


\* C33: timelines are independent.  A click on a header of one timeline
\* leaves data-expanded of every entry of the other timeline as it was.
C33_TimelinesIndependent ==
    accLast.op = "click" =>
        \A other \in Timelines \ {accLast.tl} : expanded[other] = accBefore[other]

\* An education header has been clicked and expanded while the second
\* experience entry was, and still is, expanded.
C33_Witness ==
    /\ accLast.op = "click"
    /\ accLast.tl = "education-timeline"
    /\ ExpandedEntries(accBefore, "education-timeline") = {}
    /\ ExpandedEntries(expanded, "education-timeline") = {1}
    /\ ExpandedEntries(accBefore, "experience-timeline") = {2}
    /\ ExpandedEntries(expanded, "experience-timeline") = {2}


Themes == {<<"light">>, <<"dark">>}

\* C34: theme state invariant.  From initThemeToggle on, whatever the
\* 'theme' storage key held before and whatever toggle clicks follow, the
\* body's data-theme equals the stored value and is "light" or "dark", and
\* every toggle click changes it to the other of the two.
C34_ThemeStateInvariant ==
    [][/\ themeLast' \in {"init", "toggle"} =>
             (dataTheme' = storage' /\ dataTheme' \in Themes)
       /\ (themeLast' = "toggle" /\ clicks' = clicks + 1) =>
             (dataTheme \in Themes /\ dataTheme' \in Themes \ {dataTheme})]_vars


\* C35: every blog card loadBlogs has appended is registered with the
\* scroll-animation observer, and its image with the lazy-load observer,
\* once loadBlogs and the initializers of initializeApp have all finished.
C35_BlogCardsObserved ==
    (script = "part_000" /\ blogPc = "done" /\ TurnEnded) =>
        /\ GridCardIds(blogGrid) \subseteq observed.scroll
        /\ GridCardIds(blogGrid) \subseteq observed.lazy

=============================================================================
